---- MODULE Spec2Model ----
(***************************************************************************)
(* Model of the UPT agent (src/Agent/agent.py) and the load balancer      *)
(* (src/Shared/load_balancer.py): the knowledge store of a node, the       *)
(* multicast gossip between nodes, the periodic reload and prune of the    *)
(* learning task, and the routing decision with its bounded ledger.        *)
(*                                                                         *)
(* Representation.                                                         *)
(*  - a Python dict is a function whose domain is the set of its keys;     *)
(*  - a cluster-id key is a string "i<n>" when the dict key is the int n   *)
(*    (rows loaded from sqlite) and "s<n>" when it is the str "<n>" (keys  *)
(*    that went through JSON); JsonKey is what json.dumps does to a key;   *)
(*  - a confidence c is held in tenths (0.6 is 6, 1.0 is 10);              *)
(*  - sha256 is taken to be injective: a signature is the serialised text  *)
(*    it was computed over, wrapped in a record.                           *)
(***************************************************************************)
EXTENDS Integers, Sequences, FiniteSets, TLC

VARIABLES
    running,          \* running[n]: UPTAgent.running / MulticastKnowledgeSharing.running
    pk,               \* pk[n]: the dict self.protocol_knowledge currently refers to
    gossip_pk,        \* gossip_pk[n]: the dict object handed to MulticastKnowledgeSharing.start
    shared,           \* shared[n]: self.protocol_knowledge is still that same object
    db,               \* db[n]: what the sqlite files of node n hold
    net,              \* datagrams sent to the multicast group
    routing_table,    \* routing_table[n]: self.routing_table
    decision_memory,  \* decision_memory[n]: self.decision_memory, a deque(maxlen)
    clock,            \* clock[n]: number of decisions made, stands for time.time() in decision_id
    lb,               \* lb[n]: the LoadBalancer of the current pass of process_pending_decisions
    op,               \* the last operation performed and its inputs
    fin,              \* inputs and limits of the run, fixed at its start
    calls,            \* calls[n]: the operations recorded on node n's store, in order
    th                \* the threads of one agent taken statement by statement: their
                      \* positions and locals, and the dict objects they work on

vars == <<running, pk, gossip_pk, shared, db, net, routing_table,
          decision_memory, clock, lb, op, fin, calls, th>>

\* the routing state of the agents
routeVars == <<routing_table, decision_memory, clock, lb>>

--------------------------------------------------------------------------
(* Bounds and program constants *)

Nodes == {"A", "B"}

\* largest count a merge, a feedback or a forged datagram may produce
MaxCount == 4

\* largest number of datagrams kept in flight
MaxNet == 1

\* largest number of direct calls made on one store
MaxCalls == 2

\* retention floor of prune_old_patterns
PruneFloor == 3

\* deque(maxlen=1000)
LedgerCapacity == 1000

\* confidence of an unlearned pair, in tenths (0.6)
DefaultConfidence == 6

\* estimate_latency, in ms
Latency == 10

\* seconds after which select_translator rediscovers the nodes
RefreshInterval == 60

\* time.time() during the runs, in seconds
Epoch == 1000

\* largest number of packets routed in a routing run
MaxRouted == 2

\* number of decisions of a ledger run
MaxDecisions == 1002

\* number of leading decisions of a ledger run whose packet varies
VariedDecisions == 1

\* deliveries of datagrams to a node in a run of repeated deliveries
MaxDeliveries == 3

\* successes each node learns before a gossip round, and the largest count
\* of such a run
RoundLearned == 5

RoundCap == 15

EmptyFn == [x \in {} |-> 0]

\* hashlib.md5(socket.gethostname())[:8]: one identifier per host
NodeIdOf(n) == IF n = "A" THEN "idA" ELSE "idB"

\* identifiers a datagram may carry: the two hosts and a foreign one
AllIds == {"idA", "idB", "idX"}

\* json.dumps turns an int key into the string of its digits
JsonKey(k) ==
    IF k = "i0" THEN "s0" ELSE IF k = "i1" THEN "s1" ELSE k

\* the order the keys of a protocols dict were inserted in: the int keys
\* come from load_knowledge_base, the str keys from later merges
KeyOrder == <<"i0", "i1", "s0", "s1">>

\* enumerate(cursor.fetchall()) index to dict key
IntKey(i) == IF i = 0 THEN "i0" ELSE "i1"

Min(a, b) == IF a < b THEN a ELSE b

--------------------------------------------------------------------------
(* load_knowledge_base *)

\* A database is [ok, clusters, fingerprints, table, sessions]:
\*   ok           the sniffer database can be opened and queried
\*   clusters     rows of protocol_clusters: cluster key -> [name, count]
\*   fingerprints GROUP BY protocol of fingerprints, as a sequence of [name, count]
\*   table        translation_sessions exists
\*   sessions     GROUP BY source, target of translation_sessions
LoadKnowledgeBase(d) ==
    IF ~d.ok
    THEN [protocols |-> EmptyFn, translation_patterns |-> EmptyFn]
    ELSE [protocols |->
              IF DOMAIN d.clusters # {}
              THEN d.clusters
              ELSE [k \in {IntKey(i - 1) : i \in DOMAIN d.fingerprints} |->
                       LET i == CHOOSE j \in DOMAIN d.fingerprints : IntKey(j - 1) = k
                       IN  [name |-> d.fingerprints[i].name,
                            count |-> d.fingerprints[i].count]],
          translation_patterns |->
              IF d.table THEN d.sessions ELSE EmptyFn]

--------------------------------------------------------------------------
(* merge_knowledge *)

\* a merge that overwrites the entry of a known cluster
MergeProtocolItem_Overwrite(local, cluster_id, proto_data) ==
    [k \in DOMAIN local \cup {cluster_id} |->
        IF k = cluster_id THEN proto_data ELSE local[k]]

\* one iteration of the loop over protocols.items()
MergeProtocolItem(local, cluster_id, proto_data) ==
    IF cluster_id \notin DOMAIN local
    THEN [k \in DOMAIN local \cup {cluster_id} |->
             IF k = cluster_id THEN proto_data ELSE local[k]]
    ELSE [local EXCEPT ![cluster_id].count = @ + proto_data.count]

\* the iteration raises KeyError: the entry is known and one of the two
\* records has no 'count'
ProtocolItemRaises(local, cluster_id, proto_data) ==
    /\ cluster_id \in DOMAIN local
    /\ \/ "count" \notin DOMAIN local[cluster_id]
       \/ "count" \notin DOMAIN proto_data

\* protocols.items(): the keys of a dict in their order
ItemOrder(protocols) == SelectSeq(KeyOrder, LAMBDA k : k \in DOMAIN protocols)

\* the loop over the keys todo, up to its end or to the iteration that raises
RECURSIVE MergeProtocolsLoop(_, _, _)
MergeProtocolsLoop(local, remote, todo) ==
    IF todo = <<>> THEN [raised |-> FALSE, protocols |-> local]
    ELSE LET k == Head(todo)
         IN  IF ProtocolItemRaises(local, k, remote[k])
             THEN [raised |-> TRUE, protocols |-> local]
             ELSE MergeProtocolsLoop(MergeProtocolItem(local, k, remote[k]),
                                     remote, Tail(todo))

\* a merge that keeps the local count of a known pair
MergeTargetItem_KeepLocal(targets, tgt_proto, count) ==
    IF tgt_proto \notin DOMAIN targets
    THEN [t \in DOMAIN targets \cup {tgt_proto} |->
             IF t = tgt_proto THEN count ELSE targets[t]]
    ELSE targets

\* one iteration of the inner loop over targets.items()
MergeTargetItem(targets, tgt_proto, count) ==
    IF tgt_proto \notin DOMAIN targets
    THEN [t \in DOMAIN targets \cup {tgt_proto} |->
             IF t = tgt_proto THEN count ELSE targets[t]]
    ELSE [targets EXCEPT ![tgt_proto] = @ + count]

RECURSIVE MergeTargetsLoop(_, _, _)
MergeTargetsLoop(targets, remote, todo) ==
    IF todo = {} THEN targets
    ELSE LET t == CHOOSE x \in todo : TRUE
         IN  MergeTargetsLoop(MergeTargetItem(targets, t, remote[t]),
                              remote, todo \ {t})

\* one iteration of the outer loop over translation_patterns.items()
MergeSourceItem(patterns, src_proto, targets) ==
    LET mine == IF src_proto \in DOMAIN patterns THEN patterns[src_proto] ELSE EmptyFn
        merged == MergeTargetsLoop(mine, targets, DOMAIN targets)
    IN  [s \in DOMAIN patterns \cup {src_proto} |->
            IF s = src_proto THEN merged ELSE patterns[s]]

RECURSIVE MergePatternsLoop(_, _, _)
MergePatternsLoop(patterns, remote, todo) ==
    IF todo = {} THEN patterns
    ELSE LET s == CHOOSE x \in todo : TRUE
         IN  MergePatternsLoop(MergeSourceItem(patterns, s, remote[s]),
                               remote, todo \ {s})

\* an exception in the first loop is caught at the end of merge_knowledge:
\* what was merged before it stays, the second loop is not run
MergeKnowledge(k, protocols, translation_patterns) ==
    LET merged == MergeProtocolsLoop(k.protocols, protocols, ItemOrder(protocols))
    IN  [protocols |-> merged.protocols,
         translation_patterns |->
             IF merged.raised THEN k.translation_patterns
             ELSE MergePatternsLoop(k.translation_patterns, translation_patterns,
                                    DOMAIN translation_patterns)]

--------------------------------------------------------------------------
(* learn_from_feedback and prune_old_patterns *)

\* feedback that counts a failure as it counts a success
LearnFromFeedback_CountFailures(k, translation_result) ==
    LET source_proto == translation_result.source_protocol
        target_proto == translation_result.target_protocol
        pats == k.translation_patterns
    IN  IF source_proto # "" /\ target_proto # ""
        THEN LET mine == IF source_proto \in DOMAIN pats THEN pats[source_proto] ELSE EmptyFn
                 old == IF target_proto \in DOMAIN mine THEN mine[target_proto] ELSE 0
                 upd == [t \in DOMAIN mine \cup {target_proto} |->
                            IF t = target_proto THEN old + 1 ELSE mine[t]]
             IN  [k EXCEPT !.translation_patterns =
                     [s \in DOMAIN pats \cup {source_proto} |->
                         IF s = source_proto THEN upd ELSE pats[s]]]
        ELSE k

\* translation_result is [success, source_protocol, target_protocol]; the
\* empty string is what .get(..., '') gives for a missing name
LearnFromFeedback(k, translation_result) ==
    LET success == translation_result.success
        source_proto == translation_result.source_protocol
        target_proto == translation_result.target_protocol
        pats == k.translation_patterns
    IN  IF success /\ source_proto # "" /\ target_proto # ""
        THEN LET mine == IF source_proto \in DOMAIN pats THEN pats[source_proto] ELSE EmptyFn
                 old == IF target_proto \in DOMAIN mine THEN mine[target_proto] ELSE 0
                 upd == [t \in DOMAIN mine \cup {target_proto} |->
                            IF t = target_proto THEN old + 1 ELSE mine[t]]
             IN  [k EXCEPT !.translation_patterns =
                     [s \in DOMAIN pats \cup {source_proto} |->
                         IF s = source_proto THEN upd ELSE pats[s]]]
        ELSE k

\* a prune that also removes the pairs at the floor
PruneOldPatterns_AtFloor(patterns) ==
    LET kept(s) == [t \in {x \in DOMAIN patterns[s] : patterns[s][x] > PruneFloor} |->
                       patterns[s][t]]
    IN  [s \in {x \in DOMAIN patterns : DOMAIN kept(x) # {}} |-> kept(s)]

PruneOldPatterns(patterns) ==
    LET kept(s) == [t \in {x \in DOMAIN patterns[s] : ~(patterns[s][x] < PruneFloor)} |->
                       patterns[s][t]]
    IN  [s \in {x \in DOMAIN patterns : DOMAIN kept(x) # {}} |-> kept(s)]

--------------------------------------------------------------------------
(* routing: protocol identification, target choice, confidence, the ledger *)

\* packets, as their bytes: b'HTTP/', 0x30.., 0x02.., 0x45.., b'', b'HT'
HttpPacket == <<72, 84, 84, 80, 47>>

MqttPacket == <<48, 0>>

BtcPacket == <<2, 0>>

TcpPacket == <<69, 0>>

Packets == {HttpPacket, MqttPacket, BtcPacket, TcpPacket, <<>>, <<72, 84>>}

StartsWith(data, prefix) ==
    Len(data) >= Len(prefix) /\ SubSeq(data, 1, Len(prefix)) = prefix

IdentifyProtocolFromData(packet_data) ==
    IF StartsWith(packet_data, <<72, 84, 84, 80>>) THEN "HTTP"
    ELSE IF StartsWith(packet_data, <<48>>) THEN "MQTT"
    ELSE IF Len(packet_data) > 0 /\ packet_data[1] = 2 THEN "BTC_Transaction"
    ELSE IF Len(packet_data) > 0 /\ packet_data[1] = 69 THEN "TCP"
    ELSE "Unknown"

\* `sub in name` of Python, for the protocol names of the model
Contains(name, sub) ==
    <<name, sub>> \in {<<"HTTP", "HTTP">>, <<"MQTT", "MQTT">>,
                       <<"BTC_Transaction", "BTC">>, <<"TCP", "TCP">>}

\* the targets choose_best_translation_target may return, none when it
\* returns None; max() breaks a tie by the dict's insertion order, which the
\* model does not keep, so every target of maximal count is possible
ChooseBestTranslationTarget(k, source_protocol) ==
    LET pats == k.translation_patterns
    IN  IF source_protocol \in DOMAIN pats /\ DOMAIN pats[source_protocol] # {}
        THEN LET targets == pats[source_protocol]
             IN  {t \in DOMAIN targets : \A u \in DOMAIN targets : targets[u] <= targets[t]}
        ELSE IF Contains(source_protocol, "HTTP") THEN {"MQTT"}
        ELSE IF Contains(source_protocol, "MQTT") THEN {"HTTP"}
        ELSE IF Contains(source_protocol, "BTC") THEN {"HTTP"}
        ELSE IF Contains(source_protocol, "TCP") THEN {"JSON"}
        ELSE {}

\* min(1.0, success_count / 10.0), else 0.6; in tenths
CalculateConfidence(k, source_protocol, target_protocol) ==
    LET pats == k.translation_patterns
    IN  IF source_protocol \in DOMAIN pats /\ target_protocol \in DOMAIN pats[source_protocol]
        THEN Min(10, pats[source_protocol][target_protocol])
        ELSE DefaultConfidence

EstimateLatency(source_protocol, target_protocol) == Latency

\* the optimal_paths dicts optimize_routing_strategy may build for the
\* protocols of traffic_data
OptimalPaths(k, protocols) ==
    LET routed == {p \in protocols : ChooseBestTranslationTarget(k, p) # {}}
        targets == UNION {ChooseBestTranslationTarget(k, p) : p \in routed}
    IN  {[p \in routed |->
             [target |-> f[p],
              confidence |-> CalculateConfidence(k, p, f[p]),
              expected_latency |-> EstimateLatency(p, f[p])]] :
         f \in {g \in [routed -> targets] :
                   \A p \in routed : g[p] \in ChooseBestTranslationTarget(k, p)}}

\* dict.update
UpdateRoutingTable(table, paths) ==
    [p \in DOMAIN table \cup DOMAIN paths |->
        IF p \in DOMAIN paths THEN paths[p] ELSE table[p]]

\* the decision make_decision builds at time `now`; decision_id is
\* hash((source, target, time)), hash taken to be injective
MakeDecision(k, table, packet_data, now) ==
    LET source_protocol == IdentifyProtocolFromData(packet_data)
        target_protocol == IF source_protocol \in DOMAIN table
                           THEN table[source_protocol].target
                           ELSE "HTTP"
    IN  [source_protocol |-> source_protocol,
         target_protocol |-> target_protocol,
         confidence |-> CalculateConfidence(k, source_protocol, target_protocol),
         estimated_latency_ms |-> EstimateLatency(source_protocol, target_protocol),
         timestamp |-> now,
         decision_id |-> <<source_protocol, target_protocol, now>>]

\* a deque without maxlen
DequeAppend_Unbounded(memory, decision) == Append(memory, decision)

\* deque(maxlen=LedgerCapacity).append
DequeAppend(memory, decision) ==
    IF Len(memory) >= LedgerCapacity
    THEN Append(Tail(memory), decision)
    ELSE Append(memory, decision)

--------------------------------------------------------------------------
(* the load balancer of a pass: update_nodes, select_translator *)

Range(seq) == {seq[i] : i \in DOMAIN seq}

MaxOf(S) == CHOOSE x \in S : \A y \in S : y <= x

\* what `nodes or ["http://localhost:8888"]` falls back to
DefaultNode == "http://localhost:8888"

\* update_nodes, `found` being the http:// targets read from /knowledge, empty
\* also when the request fails
UpdateNodes(found) ==
    LET nodes == IF found = <<>> THEN <<DefaultNode>> ELSE found
    IN  [translator_nodes |-> nodes,
         node_metrics |-> [x \in Range(nodes) |->
                              [load |-> 0, success |-> 0, last_checked |-> 0]]]

\* PriorityEngine.calculate_priority: a string
CalculatePriority(patterns) ==
    IF DOMAIN patterns = {} THEN [kind |-> "str", val |-> "low"]
    ELSE [kind |-> "str", val |-> "medium"]

\* the weight of a node as a fraction: with the load in tenths,
\* (1 / (load + 0.1)) * (1 + packet_priority / 10) is
\* (10 + packet_priority) / (load + 1)
Weight(metrics, node, packet_priority) ==
    [num |-> 10 + packet_priority, den |-> metrics[node].load + 1]

RECURSIVE Product(_, _)
Product(metrics, nodes) ==
    IF nodes = <<>> THEN 1
    ELSE (metrics[Head(nodes)].load + 1) * Product(metrics, Tail(nodes))

RECURSIVE Sum(_, _)
Sum(f, nodes) ==
    IF nodes = <<>> THEN 0 ELSE f[Head(nodes)] + Sum(f, Tail(nodes))

\* probabilities = [w / total ...] if total > 0, else uniform: the weights
\* are brought to the common denominator Product, and w / total is the
\* fraction of the scaled weight and the scaled total
Probabilities(metrics, healthy_nodes, packet_priority) ==
    LET common == Product(metrics, healthy_nodes)
        scaled == [x \in Range(healthy_nodes) |->
                      Weight(metrics, x, packet_priority).num
                          * (common \div Weight(metrics, x, packet_priority).den)]
        total == Sum(scaled, healthy_nodes)
    IN  [x \in Range(healthy_nodes) |->
            IF total > 0
            THEN [num |-> scaled[x], den |-> total]
            ELSE [num |-> 1, den |-> Len(healthy_nodes)]]

\* select_translator whose fallback is the last node of the list
SelectTranslator_FallbackLast(l, packet_priority, healthy, found, now) ==
    LET stale == now - MaxOf({l.node_metrics[x].last_checked : x \in DOMAIN l.node_metrics})
                     > RefreshInterval
        l1 == IF stale THEN UpdateNodes(found) ELSE l
        healthy_nodes == SelectSeq(l1.translator_nodes, LAMBDA x : x \in healthy)
    IN  IF healthy_nodes = <<>>
        THEN {[raised |-> FALSE, node |-> l1.translator_nodes[Len(l1.translator_nodes)],
               lb |-> l1, refreshed |-> stale,
               metrics |-> l1.node_metrics, probabilities |-> EmptyFn]}
        ELSE IF packet_priority.kind = "str"
        THEN {[raised |-> TRUE, node |-> "", lb |-> l1, refreshed |-> stale,
               metrics |-> l1.node_metrics, probabilities |-> EmptyFn]}
        ELSE {[raised |-> FALSE, node |-> x,
               lb |-> [l1 EXCEPT !.node_metrics[x].load = @ + 10], refreshed |-> stale,
               metrics |-> l1.node_metrics,
               probabilities |-> Probabilities(l1.node_metrics, healthy_nodes,
                                               packet_priority.val)] :
                 x \in Range(healthy_nodes)}

\* select_translator sampling all nodes once some node is healthy
SelectTranslator_NoFilter(l, packet_priority, healthy, found, now) ==
    LET stale == now - MaxOf({l.node_metrics[x].last_checked : x \in DOMAIN l.node_metrics})
                     > RefreshInterval
        l1 == IF stale THEN UpdateNodes(found) ELSE l
        healthy_nodes == SelectSeq(l1.translator_nodes, LAMBDA x : x \in healthy)
    IN  IF healthy_nodes = <<>>
        THEN {[raised |-> FALSE, node |-> l1.translator_nodes[1], lb |-> l1, refreshed |-> stale,
               metrics |-> l1.node_metrics, probabilities |-> EmptyFn]}
        ELSE IF packet_priority.kind = "str"
        THEN {[raised |-> TRUE, node |-> "", lb |-> l1, refreshed |-> stale,
               metrics |-> l1.node_metrics, probabilities |-> EmptyFn]}
        ELSE {[raised |-> FALSE, node |-> x,
               lb |-> [l1 EXCEPT !.node_metrics[x].load = @ + 10], refreshed |-> stale,
               metrics |-> l1.node_metrics,
               probabilities |-> Probabilities(l1.node_metrics, healthy_nodes,
                                               packet_priority.val)] :
                 x \in Range(l1.translator_nodes)}

\* the outcomes of select_translator: loads are in tenths; `healthy` is the
\* set of nodes whose probe answers; random.choices may return any healthy
\* node; a string priority makes the weight expression raise TypeError
SelectTranslator(l, packet_priority, healthy, found, now) ==
    LET stale == now - MaxOf({l.node_metrics[x].last_checked : x \in DOMAIN l.node_metrics})
                     > RefreshInterval
        l1 == IF stale THEN UpdateNodes(found) ELSE l
        healthy_nodes == SelectSeq(l1.translator_nodes, LAMBDA x : x \in healthy)
    IN  IF healthy_nodes = <<>>
        THEN {[raised |-> FALSE, node |-> l1.translator_nodes[1], lb |-> l1, refreshed |-> stale,
               metrics |-> l1.node_metrics, probabilities |-> EmptyFn]}
        ELSE IF packet_priority.kind = "str"
        THEN {[raised |-> TRUE, node |-> "", lb |-> l1, refreshed |-> stale,
               metrics |-> l1.node_metrics, probabilities |-> EmptyFn]}
        ELSE {[raised |-> FALSE, node |-> x,
               lb |-> [l1 EXCEPT !.node_metrics[x].load = @ + 10], refreshed |-> stale,
               metrics |-> l1.node_metrics,
               probabilities |-> Probabilities(l1.node_metrics, healthy_nodes,
                                               packet_priority.val)] :
                 x \in Range(healthy_nodes)}

\* update_metrics that lets the load go below zero
UpdateMetricsBy_NoFloor(l, node, success, load_increment, now) ==
    IF node \in DOMAIN l.node_metrics
    THEN [l EXCEPT !.node_metrics[node] =
             [load |-> @.load + load_increment - 1,
              success |-> IF success THEN @.success + 1 ELSE @.success,
              last_checked |-> now]]
    ELSE l

\* update_metrics: max(0, load + load_increment - 0.1), in tenths
UpdateMetricsBy(l, node, success, load_increment, now) ==
    IF node \in DOMAIN l.node_metrics
    THEN [l EXCEPT !.node_metrics[node] =
             [load |-> IF @.load + load_increment - 1 > 0
                       THEN @.load + load_increment - 1 ELSE 0,
              success |-> IF success THEN @.success + 1 ELSE @.success,
              last_checked |-> now]]
    ELSE l

\* update_metrics with the default load_increment of 1.0
UpdateMetrics(l, node, success, now) == UpdateMetricsBy(l, node, success, 10, now)

--------------------------------------------------------------------------
(* gossip: _sign_knowledge, _verify_signature, the datagram *)

\* json.dumps of a protocols dict: the items in insertion order, keys as JSON strings
DumpProtocols(protocols) ==
    LET present == SelectSeq(KeyOrder, LAMBDA k : k \in DOMAIN protocols)
    IN  [i \in 1..Len(present) |-> <<JsonKey(present[i]), protocols[present[i]]>>]

\* json.loads of that text: a repeated key keeps its last value
LoadProtocols(text) ==
    [k \in {text[i][1] : i \in DOMAIN text} |->
        LET last == CHOOSE i \in DOMAIN text :
                        /\ text[i][1] = k
                        /\ \A j \in DOMAIN text : text[j][1] = k => j <= i
        IN  text[last][2]]

SignKnowledge(protocols, translation_patterns) ==
    [sha256 |-> <<DumpProtocols(protocols), translation_patterns>>]

\* the dict json.loads builds from a datagram
ParseDatagram(m) ==
    [node_id |-> m.node_id,
     protocols |-> LoadProtocols(m.protocols),
     translation_patterns |-> m.translation_patterns,
     signature |-> m.signature]

\* a check whose hash covers the sender's node_id as well
VerifySignature_WithSender(knowledge) ==
    knowledge.signature =
        [sha256 |-> <<DumpProtocols(knowledge.protocols), knowledge.translation_patterns,
                      knowledge.node_id>>]

VerifySignature(knowledge) ==
    knowledge.signature =
        SignKnowledge(knowledge.protocols, knowledge.translation_patterns)

\* the datagram _send_knowledge builds from the dict it was started with
Datagram(node_id, k) ==
    [node_id |-> node_id,
     protocols |-> DumpProtocols(k.protocols),
     translation_patterns |-> k.translation_patterns,
     signature |-> SignKnowledge(k.protocols, k.translation_patterns)]

--------------------------------------------------------------------------
(* The databases and datagrams the runs are drawn from *)

Pat(s, t, c) == [x \in {s} |-> [y \in {t} |-> c]]

Proto(k, nm, c) == [x \in {k} |-> [name |-> nm, count |-> c]]

DbEmpty ==
    [ok |-> TRUE, clusters |-> EmptyFn, fingerprints |-> <<>>,
     table |-> FALSE, sessions |-> EmptyFn]

DbClustered ==
    [ok |-> TRUE, clusters |-> Proto("i1", "Protocol_1", 2), fingerprints |-> <<>>,
     table |-> TRUE, sessions |-> Pat("HTTP", "MQTT", 3)]

DbRaw ==
    [ok |-> TRUE, clusters |-> EmptyFn,
     fingerprints |-> <<[name |-> "TCP", count |-> 4]>>,
     table |-> TRUE, sessions |-> Pat("HTTP", "MQTT", 2)]

DbDown ==
    [ok |-> FALSE, clusters |-> EmptyFn, fingerprints |-> <<>>,
     table |-> FALSE, sessions |-> EmptyFn]

\* the databases of the two nodes in the gossip runs
DbAssignments ==
    {[n \in Nodes |-> IF n = "A" THEN DbClustered ELSE DbDown],
     [n \in Nodes |-> IF n = "A" THEN DbClustered ELSE DbRaw]}

\* translation_result dicts handed to learn_from_feedback
Feedbacks ==
    [success : BOOLEAN, source_protocol : {"HTTP", ""}, target_protocol : {"MQTT", ""}]

\* pattern maps an attacker writes into a datagram
ForgedPatterns == {Pat("HTTP", "MQTT", 1)}

\* the feedback the gossip runs give
GossipFeedbacks ==
    {[success |-> TRUE, source_protocol |-> "HTTP", target_protocol |-> "MQTT"],
     [success |-> FALSE, source_protocol |-> "HTTP", target_protocol |-> "MQTT"]}

CountsOf(k) ==
    {k.protocols[c].count : c \in {x \in DOMAIN k.protocols : "count" \in DOMAIN k.protocols[x]}} \cup
    UNION {{k.translation_patterns[s][t] : t \in DOMAIN k.translation_patterns[s]} :
              s \in DOMAIN k.translation_patterns}

\* the run's limit on a count
WithinBound(k) == \A c \in CountsOf(k) : c <= fin.cap

NoOp == [name |-> "none"]

NoLb == [translator_nodes |-> <<>>, node_metrics |-> EmptyFn]

\* the limits of a gossip run: largest count, datagrams in flight, whether
\* the operations on a store are recorded in calls
GossipFin == [name |-> "gossip", cap |-> MaxCount, net |-> MaxNet, log |-> FALSE]

NoFin == [name |-> "none"]

\* no thread is followed statement by statement
NoThreads == [name |-> "none"]

--------------------------------------------------------------------------
(* The node: start, gossip sender and receiver, feedback, learning task *)

Log(n, event) ==
    calls' = [calls EXCEPT ![n] = IF fin.log THEN Append(@, event) ELSE @]

\* an assignment to the dict self.protocol_knowledge refers to is seen by the
\* gossip threads only while they hold that same dict
Store(n, k) ==
    /\ pk' = [pk EXCEPT ![n] = k]
    /\ gossip_pk' = IF shared[n] THEN [gossip_pk EXCEPT ![n] = k] ELSE gossip_pk

StartAutonomousOperation(n) ==
    /\ ~running[n]
    /\ running' = [running EXCEPT ![n] = TRUE]
    /\ op' = [name |-> "start"]
    /\ UNCHANGED <<pk, gossip_pk, shared, db, net, routeVars, fin, th, calls>>

SendKnowledge(n) ==
    /\ running[n]
    /\ LET m == Datagram(NodeIdOf(n), gossip_pk[n])
       IN  /\ Cardinality(net \cup {m}) <= fin.net
           /\ net' = net \cup {m}
           /\ op' = [name |-> "send", node |-> n, msg |-> m]
    /\ Log(n, [name |-> "send"])
    /\ UNCHANGED <<running, pk, gossip_pk, shared, db, routeVars, fin, th>>

\* the receiver without its signature check
ReceiveKnowledge_NoVerify(n, m) ==
    /\ running[n]
    /\ m \in net
    /\ LET knowledge == ParseDatagram(m)
       IN  IF knowledge.node_id = NodeIdOf(n)
           THEN /\ op' = [name |-> "receive", node |-> n, msg |-> m, merged |-> FALSE]
                /\ UNCHANGED <<pk, gossip_pk>>
           ELSE LET k == MergeKnowledge(pk[n], knowledge.protocols,
                                        knowledge.translation_patterns)
                IN  /\ WithinBound(k)
                    /\ Store(n, k)
                    /\ op' = [name |-> "receive", node |-> n, msg |-> m, merged |-> TRUE]
    /\ Log(n, [name |-> "receive"])
    /\ UNCHANGED <<running, shared, db, net, routeVars, fin, th>>

\* the receiver without its own-message filter
ReceiveKnowledge_NoSelfCheck(n, m) ==
    /\ running[n]
    /\ m \in net
    /\ LET knowledge == ParseDatagram(m)
       IN  IF ~VerifySignature(knowledge)
           THEN /\ op' = [name |-> "receive", node |-> n, msg |-> m, merged |-> FALSE]
                /\ UNCHANGED <<pk, gossip_pk>>
           ELSE LET k == MergeKnowledge(pk[n], knowledge.protocols,
                                        knowledge.translation_patterns)
                IN  /\ WithinBound(k)
                    /\ Store(n, k)
                    /\ op' = [name |-> "receive", node |-> n, msg |-> m, merged |-> TRUE]
    /\ Log(n, [name |-> "receive"])
    /\ UNCHANGED <<running, shared, db, net, routeVars, fin, th>>

\* json.loads fails on the payload
Unparseable(m) == "text" \in DOMAIN m

\* a key the receiver reads is not in the parsed dict: KeyError
LacksField(m) ==
    {"protocols", "translation_patterns", "signature"} \ DOMAIN m # {}

ReceiveKnowledge(n, m) ==
    /\ running[n]
    /\ m \in net
    /\ IF Unparseable(m) \/ "node_id" \notin DOMAIN m
       THEN /\ op' = [name |-> "receive", node |-> n, msg |-> m, merged |-> FALSE,
                      raised |-> TRUE]
            /\ UNCHANGED <<pk, gossip_pk>>
       ELSE IF m.node_id = NodeIdOf(n)
       THEN /\ op' = [name |-> "receive", node |-> n, msg |-> m, merged |-> FALSE,
                      raised |-> FALSE]
            /\ UNCHANGED <<pk, gossip_pk>>
       ELSE IF LacksField(m)
       THEN /\ op' = [name |-> "receive", node |-> n, msg |-> m, merged |-> FALSE,
                      raised |-> TRUE]
            /\ UNCHANGED <<pk, gossip_pk>>
       ELSE LET knowledge == ParseDatagram(m)
            IN  IF ~VerifySignature(knowledge)
                THEN /\ op' = [name |-> "receive", node |-> n, msg |-> m,
                               merged |-> FALSE, raised |-> FALSE]
                     /\ UNCHANGED <<pk, gossip_pk>>
                ELSE LET k == MergeKnowledge(pk[n], knowledge.protocols,
                                             knowledge.translation_patterns)
                     IN  /\ WithinBound(k)
                         /\ Store(n, k)
                         /\ op' = [name |-> "receive", node |-> n, msg |-> m,
                                   merged |-> TRUE, raised |-> FALSE]
    /\ Log(n, [name |-> "receive", msg |-> m, merged |-> op'.merged])
    /\ UNCHANGED <<running, shared, db, net, routeVars, fin, th>>

\* the transport is an open multicast group: any host sends a payload to it
Inject(m) ==
    /\ m \notin net
    /\ Cardinality(net \cup {m}) <= fin.net
    /\ net' = net \cup {m}
    /\ op' = [name |-> "inject"]
    /\ UNCHANGED <<running, pk, gossip_pk, shared, db, routeVars, fin, th, calls>>

\* the transport is an open multicast group: a datagram is altered in flight,
\* its node_id and patterns rewritten and its signature left as it was
Tamper(m, id, pats) ==
    /\ m \in net
    /\ LET forged == [m EXCEPT !.node_id = id, !.translation_patterns = pats]
       IN  /\ forged \notin net
           /\ net' = (net \ {m}) \cup {forged}
    /\ op' = [name |-> "tamper"]
    /\ UNCHANGED <<running, pk, gossip_pk, shared, db, routeVars, fin, th, calls>>

\* the transport is best-effort: a datagram is lost, or its time-to-live runs out
Drop(m) ==
    /\ m \in net
    /\ net' = net \ {m}
    /\ op' = [name |-> "drop"]
    /\ UNCHANGED <<running, pk, gossip_pk, shared, db, routeVars, fin, th, calls>>

Feedback(n, translation_result) ==
    /\ running[n]
    /\ LET k == LearnFromFeedback(pk[n], translation_result)
       IN  /\ WithinBound(k)
           /\ Store(n, k)
    /\ op' = [name |-> "feedback", node |-> n, result |-> translation_result]
    /\ Log(n, [name |-> "feedback"])
    /\ UNCHANGED <<running, shared, db, net, routeVars, fin, th>>

\* one cycle of continuous_learning: rebind self.protocol_knowledge to a
\* freshly loaded dict, then prune it
ContinuousLearning(n) ==
    /\ running[n]
    /\ LET loaded == LoadKnowledgeBase(db[n])
       IN  pk' = [pk EXCEPT ![n] =
                     [loaded EXCEPT !.translation_patterns = PruneOldPatterns(@)]]
    /\ shared' = [shared EXCEPT ![n] = FALSE]
    /\ op' = [name |-> "learning"]
    /\ UNCHANGED <<running, gossip_pk, db, net, routeVars, fin, th, calls>>

--------------------------------------------------------------------------
(* Specification of two gossiping nodes *)

Init ==
    /\ db \in DbAssignments
    /\ pk = [n \in Nodes |-> LoadKnowledgeBase(db[n])]
    /\ gossip_pk = pk
    /\ shared = [n \in Nodes |-> TRUE]
    /\ running = [n \in Nodes |-> FALSE]
    /\ net = {}
    /\ routing_table = [n \in Nodes |-> EmptyFn]
    /\ decision_memory = [n \in Nodes |-> <<>>]
    /\ clock = [n \in Nodes |-> 0]
    /\ lb = [n \in Nodes |-> NoLb]
    /\ op = NoOp
    /\ fin = GossipFin
    /\ calls = [n \in Nodes |-> <<>>]
    /\ th = NoThreads

Next ==
    \/ \E n \in Nodes : StartAutonomousOperation(n)
    \/ \E n \in Nodes : SendKnowledge(n)
    \/ \E n \in Nodes, m \in net : ReceiveKnowledge(n, m)
    \/ \E m \in net, id \in AllIds :
           \E pats \in ForgedPatterns \cup {m.translation_patterns} : Tamper(m, id, pats)
    \/ \E m \in net : Drop(m)
    \/ \E n \in Nodes, r \in GossipFeedbacks : Feedback(n, r)
    \/ \E n \in Nodes : ContinuousLearning(n)

Spec == Init /\ [][Next]_vars

--------------------------------------------------------------------------
(* Specification of one gossip round between two nodes that have learned *)

RoundFin == [name |-> "round", cap |-> RoundCap, net |-> 2, log |-> TRUE]

HttpToMqtt == [success |-> TRUE, source_protocol |-> "HTTP", target_protocol |-> "MQTT"]

RoundFeedbacks == [i \in 1..RoundLearned |-> [name |-> "feedback"]]

InitRound ==
    /\ db = [n \in Nodes |-> DbEmpty]
    /\ pk = [n \in Nodes |-> LoadKnowledgeBase(db[n])]
    /\ gossip_pk = pk
    /\ shared = [n \in Nodes |-> TRUE]
    /\ running = [n \in Nodes |-> FALSE]
    /\ net = {}
    /\ routing_table = [n \in Nodes |-> EmptyFn]
    /\ decision_memory = [n \in Nodes |-> <<>>]
    /\ clock = [n \in Nodes |-> 0]
    /\ lb = [n \in Nodes |-> NoLb]
    /\ op = NoOp
    /\ fin = RoundFin
    /\ calls = [n \in Nodes |-> <<>>]
    /\ th = NoThreads

\* each node learns its successes, then broadcasts once, then receives the
\* other node's broadcast once; the learning task runs whenever it is due
NextRound ==
    \/ \E n \in Nodes : StartAutonomousOperation(n)
    \/ \E n \in Nodes : Len(calls[n]) < RoundLearned /\ Feedback(n, HttpToMqtt)
    \/ \E n \in Nodes : calls[n] = RoundFeedbacks /\ SendKnowledge(n)
    \/ \E n \in Nodes, m \in net :
           /\ calls[n] = RoundFeedbacks \o <<[name |-> "send"]>>
           /\ m.node_id # NodeIdOf(n)
           /\ ReceiveKnowledge(n, m)
    \/ \E n \in Nodes : ContinuousLearning(n)

SpecRound == InitRound /\ [][NextRound]_vars

--------------------------------------------------------------------------
(* Specification of two gossiping nodes that are sent malformed payloads *)

\* a protocol record without its count, under a cluster id
Countless(k) == [x \in {k} |-> [name |-> "Protocol_9"]]

\* a payload whose signature is the hash of its own content
Signed(id, protocols, translation_patterns) ==
    Datagram(id, [protocols |-> protocols, translation_patterns |-> translation_patterns])

\* payloads that do not parse, that lack a field, and signed payloads that
\* hold a protocol record without a count
MalformedDatagrams ==
    LET good == Signed("idX", Proto("s1", "Protocol_1", 1), Pat("HTTP", "MQTT", 1))
    IN  {[text |-> "{\"node_id\": \"idX\", \"protoc"],
         [protocols |-> good.protocols,
          translation_patterns |-> good.translation_patterns,
          signature |-> good.signature],
         [node_id |-> "idX",
          translation_patterns |-> good.translation_patterns,
          signature |-> good.signature],
         [node_id |-> "idX", protocols |-> good.protocols,
          translation_patterns |-> good.translation_patterns],
         Signed("idX", Countless("s1"), Pat("HTTP", "MQTT", 1)),
         Signed("idX", Countless("s0"), EmptyFn)}

InitMalformed ==
    /\ db = [n \in Nodes |-> IF n = "A" THEN DbClustered ELSE DbDown]
    /\ pk = [n \in Nodes |-> LoadKnowledgeBase(db[n])]
    /\ gossip_pk = pk
    /\ shared = [n \in Nodes |-> TRUE]
    /\ running = [n \in Nodes |-> FALSE]
    /\ net = {}
    /\ routing_table = [n \in Nodes |-> EmptyFn]
    /\ decision_memory = [n \in Nodes |-> <<>>]
    /\ clock = [n \in Nodes |-> 0]
    /\ lb = [n \in Nodes |-> NoLb]
    /\ op = NoOp
    /\ fin = [name |-> "malformed", cap |-> MaxCount, net |-> MaxNet, log |-> FALSE]
    /\ calls = [n \in Nodes |-> <<>>]
    /\ th = NoThreads

NextMalformed ==
    \/ \E n \in Nodes : StartAutonomousOperation(n)
    \/ \E n \in Nodes : SendKnowledge(n)
    \/ \E n \in Nodes, m \in net : ReceiveKnowledge(n, m)
    \/ \E m \in MalformedDatagrams : Inject(m)
    \/ \E m \in net : Drop(m)

SpecMalformed == InitMalformed /\ [][NextMalformed]_vars

--------------------------------------------------------------------------
(* Specification of two nodes that each broadcast once, over a transport   *)
(* that delivers a datagram any number of times                            *)

Sent(n) == \E i \in DOMAIN calls[n] : calls[n][i].name = "send"

Deliveries(n) == Cardinality({i \in DOMAIN calls[n] : calls[n][i].name = "receive"})

InitDuplicate ==
    /\ db = [n \in Nodes |-> IF n = "A" THEN DbClustered ELSE DbRaw]
    /\ pk = [n \in Nodes |-> LoadKnowledgeBase(db[n])]
    /\ gossip_pk = pk
    /\ shared = [n \in Nodes |-> TRUE]
    /\ running = [n \in Nodes |-> FALSE]
    /\ net = {}
    /\ routing_table = [n \in Nodes |-> EmptyFn]
    /\ decision_memory = [n \in Nodes |-> <<>>]
    /\ clock = [n \in Nodes |-> 0]
    /\ lb = [n \in Nodes |-> NoLb]
    /\ op = NoOp
    /\ fin = [name |-> "duplicate", cap |-> RoundCap, net |-> 2, log |-> TRUE]
    /\ calls = [n \in Nodes |-> <<>>]
    /\ th = NoThreads

NextDuplicate ==
    \/ \E n \in Nodes : StartAutonomousOperation(n)
    \/ \E n \in Nodes : ~Sent(n) /\ SendKnowledge(n)
    \/ \E n \in Nodes, m \in net : Deliveries(n) < MaxDeliveries /\ ReceiveKnowledge(n, m)
    \/ \E m \in net : Drop(m)

SpecDuplicate == InitDuplicate /\ [][NextDuplicate]_vars

--------------------------------------------------------------------------
(* Direct calls of merge_knowledge, learn_from_feedback, prune_old_patterns *)

\* merge_knowledge(protocols, translation_patterns), each call handed dicts
\* of its own, as json.loads builds them
MergeCall(n, snap) ==
    /\ Len(calls[n]) < MaxCalls
    /\ Store(n, MergeKnowledge(pk[n], snap.protocols, snap.translation_patterns))
    /\ calls' = [calls EXCEPT ![n] = Append(@, [name |-> "merge", arg |-> snap])]
    /\ op' = [name |-> "merge", node |-> n, arg |-> snap]
    /\ UNCHANGED <<running, shared, db, net, routeVars, fin, th>>

LearnCall(n, translation_result) ==
    /\ Len(calls[n]) < MaxCalls
    /\ Store(n, LearnFromFeedback(pk[n], translation_result))
    /\ calls' = [calls EXCEPT ![n] = Append(@, [name |-> "learn", arg |-> translation_result])]
    /\ op' = [name |-> "learn", node |-> n, arg |-> translation_result]
    /\ UNCHANGED <<running, shared, db, net, routeVars, fin, th>>

\* prune_old_patterns deletes from the dict in place
PruneCall(n) ==
    /\ Len(calls[n]) < MaxCalls
    /\ Store(n, [pk[n] EXCEPT !.translation_patterns = PruneOldPatterns(@)])
    /\ calls' = [calls EXCEPT ![n] = Append(@, [name |-> "prune"])]
    /\ op' = [name |-> "prune", node |-> n]
    /\ UNCHANGED <<running, shared, db, net, routeVars, fin, th>>

\* what the state of a run of direct calls starts from: every node's store is k
CallsInit(k) ==
    /\ db = [n \in Nodes |-> DbEmpty]
    /\ pk = [n \in Nodes |-> k]
    /\ gossip_pk = pk
    /\ shared = [n \in Nodes |-> TRUE]
    /\ running = [n \in Nodes |-> FALSE]
    /\ net = {}
    /\ routing_table = [n \in Nodes |-> EmptyFn]
    /\ decision_memory = [n \in Nodes |-> <<>>]
    /\ clock = [n \in Nodes |-> 0]
    /\ lb = [n \in Nodes |-> NoLb]
    /\ op = NoOp
    /\ calls = [n \in Nodes |-> <<>>]
    /\ th = NoThreads

\* stores and snapshots of the merge runs
MergeProtocolMaps ==
    {EmptyFn, Proto("i1", "Protocol_1", 1), Proto("i1", "TCP", 3),
     Proto("s1", "Protocol_1", 2)}

MergePatternMaps ==
    {Pat("HTTP", "MQTT", 2), Pat("HTTP", "JSON", 1),
     [x \in {"HTTP"} |-> EmptyFn],
     [x \in {"HTTP", "MQTT"} |-> IF x = "HTTP" THEN [y \in {"MQTT", "JSON"} |-> 3]
                                               ELSE [y \in {"HTTP"} |-> 5]]}

Snapshots == [protocols : MergeProtocolMaps, translation_patterns : MergePatternMaps]

MergeStores ==
    {[protocols |-> EmptyFn, translation_patterns |-> EmptyFn],
     [protocols |-> Proto("i1", "Protocol_1", 2), translation_patterns |-> Pat("HTTP", "MQTT", 3)],
     [protocols |-> Proto("s1", "Protocol_1", 4), translation_patterns |-> Pat("MQTT", "HTTP", 1)]}

\* Two stores that start equal and are each handed the snapshots A and B
InitMerge ==
    /\ fin \in [K : MergeStores, A : Snapshots, B : Snapshots]
    /\ CallsInit(fin.K)

NextMerge == \E n \in Nodes, snap \in {fin.A, fin.B} : MergeCall(n, snap)

SpecMerge == InitMerge /\ [][NextMerge]_vars

\* pattern maps of the feedback and prune runs
PatternCounts == {2, 3, 4}

TargetMaps == UNION {[T -> PatternCounts] : T \in SUBSET {"MQTT", "JSON"}}

PatternMaps == UNION {[S -> TargetMaps] : S \in SUBSET {"HTTP", "MQTT"}}

\* One store under feedback and prune
InitStore ==
    /\ fin \in [K : [protocols : {EmptyFn}, translation_patterns : PatternMaps]]
    /\ CallsInit(fin.K)

NextStore ==
    \/ \E r \in Feedbacks : LearnCall("A", r)
    \/ PruneCall("A")

SpecStore == InitStore /\ [][NextStore]_vars

--------------------------------------------------------------------------
(* The routing side of a node: traffic analysis and the decision loop *)

\* the seconds of the five minutes the query looks back: count / 300
Window == 300

\* self.throughput_baseline and self.max_sources: the values of
\* agent_config.yaml when the run has one that loads, else the defaults
ThroughputBaseline ==
    IF "config" \in DOMAIN fin THEN fin.config.max_throughput ELSE 10

MaxSources ==
    IF "config" \in DOMAIN fin THEN fin.config.max_connections_per_second ELSE 100

\* 'throughput': count / 300, as a fraction
Throughput(count) == [num |-> count, den |-> Window]

\* fraction > integer
Exceeds(q, x) == q.num > x * q.den

\* the dict trigger_defensive_measures hands to apply_routing_policy
DefensiveActions(protocol) ==
    [priority |-> "medium", action |-> "rate_limit", protocol |-> protocol,
     max_throughput |-> 20, duration_minutes |-> 5]

\* detect_anomalies that answers a multi-source alert with a defence as well
DetectAnomalies_DefendSources(traffic_data, baseline, max_sources) ==
    LET high == {p \in DOMAIN traffic_data :
                    Exceeds(Throughput(traffic_data[p].packet_count), baseline * 5)}
        multi == {p \in DOMAIN traffic_data : traffic_data[p].unique_sources > max_sources}
    IN  [high_traffic |-> high, multi_source |-> multi,
         policies |-> [p \in high \cup multi |-> <<DefensiveActions(p)>>]]

\* detect_anomalies: the protocols of each warning, and for every protocol
\* the dicts apply_routing_policy was called with
DetectAnomalies(traffic_data, baseline, max_sources) ==
    LET high == {p \in DOMAIN traffic_data :
                    Exceeds(Throughput(traffic_data[p].packet_count), baseline * 5)}
        multi == {p \in DOMAIN traffic_data : traffic_data[p].unique_sources > max_sources}
    IN  [high_traffic |-> high, multi_source |-> multi,
         policies |-> [p \in high |-> <<DefensiveActions(p)>>]]

\* one cycle of analyze_network_patterns that reads its rows: detect_anomalies
\* logs and hands its defences to apply_routing_policy, which logs;
\* optimize_routing_strategy rewrites the routing table
AnalyzeNetworkPatterns(n, traffic_data) ==
    /\ running[n]
    /\ \E paths \in OptimalPaths(pk[n], DOMAIN traffic_data) :
           routing_table' = [routing_table EXCEPT ![n] = UpdateRoutingTable(@, paths)]
    /\ op' = [name |-> "analyze", node |-> n,
              anomalies |-> DetectAnomalies(traffic_data, ThroughputBaseline, MaxSources)]
    /\ UNCHANGED <<running, pk, gossip_pk, shared, db, net,
                   decision_memory, clock, lb, fin, th, calls>>

\* make_decision called on its own
MakeDecisionCall(n, packet_data) ==
    /\ LET decision == MakeDecision(pk[n], routing_table[n], packet_data, clock[n])
       IN  /\ decision_memory' = [decision_memory EXCEPT ![n] = DequeAppend(@, decision)]
           /\ op' = [name |-> "decide", node |-> n, decision |-> decision]
    /\ clock' = [clock EXCEPT ![n] = @ + 1]
    /\ UNCHANGED <<running, pk, gossip_pk, shared, db, net,
                   routing_table, lb, fin, th, calls>>

\* process_pending_decisions up to its loop: a LoadBalancer of its own
BeginPass(n, found) ==
    /\ running[n]
    /\ lb[n] = NoLb
    /\ lb' = [lb EXCEPT ![n] = UpdateNodes(found)]
    /\ op' = [name |-> "pass", node |-> n]
    /\ UNCHANGED <<running, pk, gossip_pk, shared, db, net,
                   routing_table, decision_memory, clock, fin, th, calls>>

\* one packet of the loop, up to make_decision: the priority, the translator,
\* the decision; an exception of select_translator ends the pass
RoutePacket(n, packet_data, healthy, found) ==
    /\ running[n]
    /\ lb[n] # NoLb
    /\ LET priority == CalculatePriority(IF db[n].table THEN db[n].sessions ELSE EmptyFn)
       IN  \E sel \in SelectTranslator(lb[n], priority, healthy, found, Epoch) :
               IF sel.raised
               THEN /\ lb' = [lb EXCEPT ![n] = NoLb]
                    /\ op' = [name |-> "route", node |-> n, packet |-> packet_data,
                              healthy |-> healthy, raised |-> TRUE]
                    /\ UNCHANGED <<decision_memory, clock>>
               ELSE LET decision == MakeDecision(pk[n], routing_table[n],
                                                 packet_data, clock[n])
                    IN  /\ lb' = [lb EXCEPT ![n] = sel.lb]
                        /\ decision_memory' =
                               [decision_memory EXCEPT ![n] = DequeAppend(@, decision)]
                        /\ clock' = [clock EXCEPT ![n] = @ + 1]
                        /\ op' = [name |-> "route", node |-> n, packet |-> packet_data,
                                  healthy |-> healthy, raised |-> FALSE,
                                  translator_nodes |-> sel.lb.translator_nodes,
                                  translator_url |-> sel.node,
                                  decision |-> decision]
    /\ UNCHANGED <<running, pk, gossip_pk, shared, db, net, routing_table, fin, th, calls>>

\* the loop of the pass is over
EndPass(n) ==
    /\ lb[n] # NoLb
    /\ lb' = [lb EXCEPT ![n] = NoLb]
    /\ op' = [name |-> "passed", node |-> n]
    /\ UNCHANGED <<running, pk, gossip_pk, shared, db, net,
                   routing_table, decision_memory, clock, fin, th, calls>>

\* the rows analyze_network_patterns may read
Stats == [packet_count |-> 1, unique_sources |-> 1]

TrafficChoices ==
    {[p \in P |-> Stats] : P \in {{"HTTP"}, {"TCP", "Unknown"}, {"MQTT", "HTTP"}}}

\* the node lists update_nodes may find, and the nodes a probe may reach
FoundLists == {<<>>, <<"http://t1:8888">>, <<"http://t2:8888", "http://t1:8888">>}

Endpoints == {DefaultNode, "http://t1:8888", "http://t2:8888"}

\* a database whose translation sessions give (HTTP -> MQTT: 12)
DbLearned ==
    [ok |-> TRUE, clusters |-> Proto("i1", "Protocol_1", 2), fingerprints |-> <<>>,
     table |-> TRUE, sessions |-> Pat("HTTP", "MQTT", 12)]

\* One agent routing packets
InitRoute ==
    /\ db \in {[n \in Nodes |-> IF n = "A" THEN d ELSE DbEmpty] : d \in {DbLearned, DbRaw}}
    /\ pk = [n \in Nodes |-> LoadKnowledgeBase(db[n])]
    /\ gossip_pk = pk
    /\ shared = [n \in Nodes |-> TRUE]
    /\ running = [n \in Nodes |-> FALSE]
    /\ net = {}
    /\ routing_table = [n \in Nodes |-> EmptyFn]
    /\ decision_memory = [n \in Nodes |-> <<>>]
    /\ clock = [n \in Nodes |-> 0]
    /\ lb = [n \in Nodes |-> NoLb]
    /\ op = NoOp
    /\ fin = NoFin
    /\ calls = [n \in Nodes |-> <<>>]
    /\ th = NoThreads

NextRoute ==
    \/ StartAutonomousOperation("A")
    \/ \E traffic_data \in TrafficChoices : AnalyzeNetworkPatterns("A", traffic_data)
    \/ \E found \in FoundLists : BeginPass("A", found)
    \/ \E packet_data \in Packets, healthy \in SUBSET Endpoints, found \in FoundLists :
           clock["A"] < MaxRouted /\ RoutePacket("A", packet_data, healthy, found)
    \/ EndPass("A")

SpecRoute == InitRoute /\ [][NextRoute]_vars

--------------------------------------------------------------------------
(* Specification of a node that decides while snapshots of other hosts     *)
(* arrive.  The signature is a hash without a key: a host outside the      *)
(* model signs whatever counts it sends.                                   *)

ForeignSnapshots ==
    {Signed("idX", EmptyFn, Pat("HTTP", "MQTT", c)) : c \in {1, -5}}

InitConfidence ==
    /\ db = [n \in Nodes |-> IF n = "A" THEN DbClustered ELSE DbDown]
    /\ pk = [n \in Nodes |-> LoadKnowledgeBase(db[n])]
    /\ gossip_pk = pk
    /\ shared = [n \in Nodes |-> TRUE]
    /\ running = [n \in Nodes |-> FALSE]
    /\ net = {}
    /\ routing_table = [n \in Nodes |-> EmptyFn]
    /\ decision_memory = [n \in Nodes |-> <<>>]
    /\ clock = [n \in Nodes |-> 0]
    /\ lb = [n \in Nodes |-> NoLb]
    /\ op = NoOp
    /\ fin = [name |-> "confidence", cap |-> MaxCount, net |-> MaxNet, log |-> TRUE]
    /\ calls = [n \in Nodes |-> <<>>]
    /\ th = NoThreads

NextConfidence ==
    \/ StartAutonomousOperation("A")
    \/ \E m \in net : Deliveries("A") < MaxDeliveries /\ ReceiveKnowledge("A", m)
    \/ \E m \in ForeignSnapshots : Inject(m)
    \/ \E m \in net : Drop(m)
    \/ \E traffic_data \in TrafficChoices : AnalyzeNetworkPatterns("A", traffic_data)
    \/ \E packet_data \in {HttpPacket, TcpPacket} :
           clock["A"] < MaxRouted /\ MakeDecisionCall("A", packet_data)

SpecConfidence == InitConfidence /\ [][NextConfidence]_vars

--------------------------------------------------------------------------
(* The translation server and the rest of a packet's turn in               *)
(* process_pending_decisions: the POST to /translate, the metrics, the     *)
(* feedback.  The codecs are not part of the sources: a codec returns      *)
(* bytes or raises.                                                        *)

\* the keys of UPTTranslator.translators
Translators == {"MQTT", "BTC", "JSON"}

Retries == 3

\* the protocol column of the row the packet was read from
RowProtocols == {"HTTP", "MQTT"}

Codecs == {"bytes", "raises"}

\* translate_packet: (translated_data, success)
TranslatePacket(packet_data, target_protocol, codec) ==
    IF target_protocol \notin Translators
    THEN [data |-> <<>>, success |-> FALSE]
    ELSE IF codec = "raises"
    THEN [data |-> <<>>, success |-> FALSE]
    ELSE [data |-> packet_data, success |-> TRUE]

\* process_translation_request: connect_to_db leaves connection_db None, so
\* nothing is inserted; the data is returned and the flag is not
ProcessTranslationRequest(source_data, target_protocol, codec) ==
    TranslatePacket(source_data, target_protocol, codec).data

\* do_POST on /translate with a well-formed request: the 200 response
DoPost(source_data, target_protocol, codec) ==
    LET translated_data == ProcessTranslationRequest(source_data, target_protocol, codec)
    IN  [success |-> TRUE,
         original_length |-> Len(source_data),
         translated_length |-> Len(translated_data)]

\* make_decision has returned and the packet is not dispatched yet
Decided == IF op.name = "route" THEN ~op.raised ELSE FALSE

RECURSIVE RetryLoop_Unbounded(_, _, _, _, _)
\* a loop that posts until the server answers
RetryLoop_Unbounded(l, node, failures, attempt, now) ==
    IF attempt >= failures
    THEN [lb |-> l, posts |-> attempt + 1, replied |-> TRUE]
    ELSE RetryLoop_Unbounded(UpdateMetrics(l, node, FALSE, now), node, failures,
                             attempt + 1, now)

RECURSIVE RetryLoop(_, _, _, _, _)
\* `for attempt in range(retries)` from iteration `attempt` on: the first
\* `failures` posts raise a RequestException (no connection, a timeout, a 4xx
\* or 5xx status) and are followed by update_metrics(translator_url, False);
\* the post after them is answered 200 and the loop breaks
RetryLoop(l, node, failures, attempt, now) ==
    IF attempt >= Retries
    THEN [lb |-> l, posts |-> attempt, replied |-> FALSE]
    ELSE IF attempt >= failures
    THEN [lb |-> l, posts |-> attempt + 1, replied |-> TRUE]
    ELSE RetryLoop(UpdateMetrics(l, node, FALSE, now), node, failures, attempt + 1, now)

\* the rest of the turn of the packet RoutePacket decided on: the retry loop,
\* and after a 200 answer update_metrics and learn_from_feedback
Dispatch(n, source_protocol, failures, codec) ==
    /\ Decided
    /\ op.node = n
    /\ lb[n] # NoLb
    /\ LET decision == op.decision
           translator_url == op.translator_url
           loop == RetryLoop(lb[n], translator_url, failures, 0, Epoch)
           result == DoPost(op.packet, decision.target_protocol, codec)
           feedback == [success |-> result.success,
                        source_protocol |-> source_protocol,
                        target_protocol |-> decision.target_protocol]
       IN  /\ lb' = [lb EXCEPT ![n] =
                        IF loop.replied
                        THEN UpdateMetrics(loop.lb, translator_url, result.success, Epoch)
                        ELSE loop.lb]
           /\ IF loop.replied
              THEN Store(n, LearnFromFeedback(pk[n], feedback))
              ELSE UNCHANGED <<pk, gossip_pk>>
           /\ op' = [name |-> "dispatch", node |-> n, replied |-> loop.replied,
                     posts |-> loop.posts, failures |-> failures,
                     translator_url |-> translator_url,
                     metrics |-> lb[n].node_metrics,
                     translated |-> TranslatePacket(op.packet, decision.target_protocol,
                                                    codec).success,
                     target_protocol |-> decision.target_protocol,
                     feedback |-> feedback,
                     before |-> pk[n].translation_patterns]
    /\ UNCHANGED <<running, shared, db, net, routing_table, decision_memory, clock,
                   fin, th, calls>>

NextDispatch ==
    \/ StartAutonomousOperation("A")
    \/ \E traffic_data \in TrafficChoices : AnalyzeNetworkPatterns("A", traffic_data)
    \/ \E found \in FoundLists : BeginPass("A", found)
    \/ \E packet_data \in Packets, healthy \in SUBSET Endpoints, found \in FoundLists :
           /\ clock["A"] < MaxRouted
           /\ ~Decided
           /\ RoutePacket("A", packet_data, healthy, found)
    \/ \E source_protocol \in RowProtocols, failures \in {0, 1, Retries}, codec \in Codecs :
           Dispatch("A", source_protocol, failures, codec)
    \/ ~Decided /\ EndPass("A")

SpecDispatch == InitRoute /\ [][NextDispatch]_vars

\* The ledger of one agent under a long run of decisions
LedgerPackets(made) == IF made < VariedDecisions THEN Packets ELSE {HttpPacket}

NextLedger ==
    \E packet_data \in LedgerPackets(clock["A"]) :
        clock["A"] < MaxDecisions /\ MakeDecisionCall("A", packet_data)

SpecLedger == InitRoute /\ [][NextLedger]_vars

--------------------------------------------------------------------------
(* The threads of agent "A" on the count of the pair (HTTP, MQTT), taken   *)
(* statement by statement: the gossip receiver in merge_knowledge, the     *)
(* decision loop in learn_from_feedback, the learning thread in            *)
(* continuous_learning.  No statement of agent.py takes a lock.  In th,    *)
(*   root    is the knowledge dict self.protocol_knowledge refers to: 0    *)
(*           the one loaded by __init__, 1 the one loaded by the reload;   *)
(*   src[g]  is the dict translation_patterns["HTTP"] of knowledge g, 0    *)
(*           when the key is absent;                                       *)
(*   cnt[d]  is the value of key "MQTT" in dict d, -1 when it is absent;   *)
(*   next    is the dict the next `{}` or load creates;                    *)
(*   recv, main, learn are the threads: pc, and the dict and the count a   *)
(*           statement holds between its read and its write.               *)

\* counts of the pair in the database, 0 for none, and in the snapshot
DbCounts == {0, 2, 3}

SnapshotCounts == {1, 2}

Dicts == 1..4

Absent == -1

DbSessions(d) ==
    [ok |-> TRUE, clusters |-> EmptyFn, fingerprints |-> <<>>, table |-> TRUE,
     sessions |-> IF d > 0 THEN Pat("HTTP", "MQTT", d) ELSE EmptyFn]

Idle == [pc |-> "start", t |-> 0, v |-> 0]

\* a thread is past its operation, by its end or by an exception
Over(thread) == thread.pc \in {"done", "raised"}

\* `if source not in ...['translation_patterns']`
CheckSource(h, thread) ==
    [h EXCEPT ![thread].pc = IF h.src[h.root] = 0 THEN "new_source" ELSE "check_target"]

\* `...['translation_patterns'][source] = {}`
NewSource(h, thread) ==
    [h EXCEPT !.src[h.root] = h.next,
              !.cnt[h.next] = Absent,
              !.next = @ + 1,
              ![thread].pc = "check_target"]

\* `if target not in ...['translation_patterns'][source]`
CheckTarget(h, thread) ==
    [h EXCEPT ![thread].pc =
        IF h.src[h.root] = 0 THEN "raised"
        ELSE IF h.cnt[h.src[h.root]] = Absent THEN "new_target" ELSE "read"]

\* `...[source][target] = count` of merge_knowledge, `= 0` of learn_from_feedback
NewTarget(h, thread, count, then) ==
    IF h.src[h.root] = 0 THEN [h EXCEPT ![thread].pc = "raised"]
    ELSE [h EXCEPT !.cnt[h.src[h.root]] = count, ![thread].pc = then]

\* `...[source][target] += n`: the dict and its value are read
ReadCount(h, thread) ==
    IF h.src[h.root] = 0 \/ h.cnt[h.src[h.root]] = Absent
    THEN [h EXCEPT ![thread].pc = "raised"]
    ELSE [h EXCEPT ![thread] = [pc |-> "write", t |-> h.src[h.root],
                                v |-> h.cnt[h.src[h.root]]]]

\* `...[source][target] += n`: the sum is stored in the dict that was read
WriteCount(h, thread, n) ==
    [h EXCEPT !.cnt[h[thread].t] = h[thread].v + n, ![thread].pc = "done"]

\* the next statement of the thread on the pair
Statement(h, thread, n, first) ==
    CASE h[thread].pc = "start" -> CheckSource(h, thread)
      [] h[thread].pc = "new_source" -> NewSource(h, thread)
      [] h[thread].pc = "check_target" -> CheckTarget(h, thread)
      [] h[thread].pc = "new_target" ->
             NewTarget(h, thread, first, IF thread = "recv" THEN "done" ELSE "read")
      [] h[thread].pc = "read" -> ReadCount(h, thread)
      [] h[thread].pc = "write" -> WriteCount(h, thread, n)

\* merge_knowledge({}, {"HTTP": {"MQTT": count}}) in the receiver thread
MergeStep ==
    /\ fin.name = "threads"
    /\ ~Over(th.recv)
    /\ th' = Statement(th, "recv", fin.count, fin.count)
    /\ op' = [name |-> "merge_step"]
    /\ UNCHANGED <<running, pk, gossip_pk, shared, db, net, routeVars, fin, calls>>

\* learn_from_feedback of a success of (HTTP, MQTT) in the decision loop
FeedbackStep ==
    /\ fin.name = "threads"
    /\ ~Over(th.main)
    /\ th' = Statement(th, "main", 1, 0)
    /\ op' = [name |-> "feedback_step"]
    /\ UNCHANGED <<running, pk, gossip_pk, shared, db, net, routeVars, fin, calls>>

\* self.protocol_knowledge = self.load_knowledge_base()
Reload(h) ==
    IF fin.db > 0
    THEN [h EXCEPT !.root = 1, !.src[1] = h.next, !.cnt[h.next] = fin.db,
                   !.next = @ + 1, !.learn.pc = "prune"]
    ELSE [h EXCEPT !.root = 1, !.src[1] = 0, !.learn.pc = "prune"]

\* patterns = ...; list(patterns.keys())
PruneKeys(h) == [h EXCEPT !.learn.pc = IF h.src[h.root] = 0 THEN "done" ELSE "items"]

\* list(patterns[src_proto].items())
PruneItems(h) ==
    LET count == h.cnt[h.src[1]]
    IN  [h EXCEPT !.learn.v = count,
                  !.learn.pc = IF count # Absent /\ count < PruneFloor
                               THEN "del_target" ELSE "check_empty"]

\* del patterns[src_proto][tgt_proto]
PruneDelTarget(h) ==
    IF h.cnt[h.src[1]] = Absent THEN [h EXCEPT !.learn.pc = "raised"]
    ELSE [h EXCEPT !.cnt[h.src[1]] = Absent, !.learn.pc = "check_empty"]

\* if not patterns[src_proto]
PruneCheckEmpty(h) ==
    [h EXCEPT !.learn.pc = IF h.cnt[h.src[1]] = Absent THEN "del_source" ELSE "done"]

\* del patterns[src_proto]
PruneDelSource(h) == [h EXCEPT !.src[1] = 0, !.learn.pc = "done"]

\* one cycle of continuous_learning in the learning thread
LearningStep ==
    /\ fin.name = "threads"
    /\ ~Over(th.learn)
    /\ th' = CASE th.learn.pc = "start" -> Reload(th)
               [] th.learn.pc = "prune" -> PruneKeys(th)
               [] th.learn.pc = "items" -> PruneItems(th)
               [] th.learn.pc = "del_target" -> PruneDelTarget(th)
               [] th.learn.pc = "check_empty" -> PruneCheckEmpty(th)
               [] th.learn.pc = "del_source" -> PruneDelSource(th)
    /\ op' = [name |-> "learning_step"]
    /\ UNCHANGED <<running, pk, gossip_pk, shared, db, net, routeVars, fin, calls>>

InitThreads ==
    /\ fin \in {[name |-> "threads", db |-> d, count |-> c] :
                   d \in DbCounts, c \in SnapshotCounts}
    /\ db = [n \in Nodes |-> IF n = "A" THEN DbSessions(fin.db) ELSE DbEmpty]
    /\ pk = [n \in Nodes |-> LoadKnowledgeBase(db[n])]
    /\ gossip_pk = pk
    /\ shared = [n \in Nodes |-> TRUE]
    /\ running = [n \in Nodes |-> n = "A"]
    /\ net = {}
    /\ routing_table = [n \in Nodes |-> EmptyFn]
    /\ decision_memory = [n \in Nodes |-> <<>>]
    /\ clock = [n \in Nodes |-> 0]
    /\ lb = [n \in Nodes |-> NoLb]
    /\ op = NoOp
    /\ calls = [n \in Nodes |-> <<>>]
    /\ th = [name |-> "threads",
             root |-> 0,
             src |-> [g \in {0, 1} |-> IF g = 0 /\ fin.db > 0 THEN 1 ELSE 0],
             cnt |-> [d \in Dicts |-> IF d = 1 /\ fin.db > 0 THEN fin.db ELSE Absent],
             next |-> IF fin.db > 0 THEN 2 ELSE 1,
             recv |-> Idle, main |-> Idle, learn |-> Idle]

NextThreads == MergeStep \/ FeedbackStep \/ LearningStep

SpecThreads == InitThreads /\ [][NextThreads]_vars

--------------------------------------------------------------------------
(* The periodic tasks of agent "A" and stop().  In th, pc[t] is where task *)
(* t is: at the test of its `while self.running`, in the body of the loop, *)
(* in its sleep, or past the loop; the receiver is in recvfrom instead of  *)
(* a sleep.  The socket has no timeout.  failed is the task whose cycle    *)
(* raised an exception last.                                               *)

PeriodicTasks == {"sender", "analysis", "learning", "decision"}

Tasks == PeriodicTasks \cup {"receiver"}

\* `while self.running`
TestRunning(t) ==
    /\ th.name = "tasks"
    /\ th.pc[t] = "test"
    /\ th' = [th EXCEPT !.pc[t] = IF running["A"] THEN "body" ELSE "exited"]
    /\ op' = [name |-> "test", task |-> t]
    /\ UNCHANGED <<running, pk, gossip_pk, shared, db, net, routeVars, fin, calls>>

\* a body whose exception ends the task
Body_Fatal(t, raises) ==
    /\ th.name = "tasks"
    /\ t \in PeriodicTasks
    /\ th.pc[t] = "body"
    /\ th' = [th EXCEPT !.pc[t] = IF raises THEN "exited" ELSE "sleep",
                        !.failed = IF raises THEN t ELSE @]
    /\ op' = [name |-> "body", task |-> t, raised |-> raises]
    /\ UNCHANGED <<running, pk, gossip_pk, shared, db, net, routeVars, fin, calls>>

\* the body of a periodic task up to its time_module.sleep: the one at the
\* end of the try block, or, when a statement raises, the one of the except
\* clause
Body(t, raises) ==
    /\ th.name = "tasks"
    /\ t \in PeriodicTasks
    /\ th.pc[t] = "body"
    /\ th' = [th EXCEPT !.pc[t] = "sleep",
                        !.failed = IF raises THEN t ELSE @]
    /\ op' = [name |-> "body", task |-> t, raised |-> raises]
    /\ UNCHANGED <<running, pk, gossip_pk, shared, db, net, routeVars, fin, calls>>

\* time_module.sleep returns
Wake(t) ==
    /\ th.name = "tasks"
    /\ th.pc[t] = "sleep"
    /\ th' = [th EXCEPT !.pc[t] = "test"]
    /\ op' = [name |-> "wake", task |-> t]
    /\ UNCHANGED <<running, pk, gossip_pk, shared, db, net, routeVars, fin, calls>>

\* the receiver calls self.sock.recvfrom(4096): on a closed socket it raises
\* and the except clause sleeps, on an open one it waits for a datagram
EnterRecvfrom ==
    /\ th.name = "tasks"
    /\ th.pc["receiver"] = "body"
    /\ th' = [th EXCEPT !.pc["receiver"] = IF th.sock = "closed" THEN "sleep" ELSE "recvfrom",
                        !.failed = IF th.sock = "closed" THEN "receiver" ELSE @]
    /\ op' = [name |-> "recvfrom", task |-> "receiver", raised |-> th.sock = "closed"]
    /\ UNCHANGED <<running, pk, gossip_pk, shared, db, net, routeVars, fin, calls>>

\* a datagram arrives for the waiting receiver: it is handled, or skipped by
\* `continue`, and the receiver is back at the test of its loop; or a
\* statement of the handling raises and the except clause sleeps
Arrive(raises) ==
    /\ th.name = "tasks"
    /\ th.pc["receiver"] = "recvfrom"
    /\ th' = [th EXCEPT !.pc["receiver"] = IF raises THEN "sleep" ELSE "test",
                        !.failed = IF raises THEN "receiver" ELSE @]
    /\ op' = [name |-> "arrive", task |-> "receiver", raised |-> raises]
    /\ UNCHANGED <<running, pk, gossip_pk, shared, db, net, routeVars, fin, calls>>

\* UPTAgent.stop and MulticastKnowledgeSharing.stop: the flags are cleared
\* and the socket is closed.  Whether close() ends a recvfrom that another
\* thread is waiting in depends on the platform: woken says it does.
Stop(woken) ==
    /\ th.name = "tasks"
    /\ running["A"]
    /\ running' = [running EXCEPT !["A"] = FALSE]
    /\ th' = [th EXCEPT !.sock = "closed",
                        !.pc["receiver"] =
                            IF @ = "recvfrom" /\ woken THEN "sleep" ELSE @,
                        !.failed =
                            IF th.pc["receiver"] = "recvfrom" /\ woken
                            THEN "receiver" ELSE @]
    /\ op' = [name |-> "stop"]
    /\ UNCHANGED <<pk, gossip_pk, shared, db, net, routeVars, fin, calls>>

InitCancel ==
    /\ db = [n \in Nodes |-> DbEmpty]
    /\ pk = [n \in Nodes |-> LoadKnowledgeBase(db[n])]
    /\ gossip_pk = pk
    /\ shared = [n \in Nodes |-> TRUE]
    /\ running = [n \in Nodes |-> n = "A"]
    /\ net = {}
    /\ routing_table = [n \in Nodes |-> EmptyFn]
    /\ decision_memory = [n \in Nodes |-> <<>>]
    /\ clock = [n \in Nodes |-> 0]
    /\ lb = [n \in Nodes |-> NoLb]
    /\ op = NoOp
    /\ fin = [name |-> "tasks"]
    /\ calls = [n \in Nodes |-> <<>>]
    /\ th = [name |-> "tasks", sock |-> "open", pc |-> [t \in Tasks |-> "test"],
             failed |-> "none"]

\* the steps a task takes by itself
TaskStep(t) ==
    \/ TestRunning(t)
    \/ \E raises \in BOOLEAN : Body(t, raises)
    \/ Wake(t)
    \/ (t = "receiver" /\ EnterRecvfrom)

NextCancel ==
    \/ \E t \in Tasks : TaskStep(t)
    \/ \E raises \in BOOLEAN : Arrive(raises)
    \/ \E woken \in BOOLEAN : Stop(woken)

\* every thread that can take a step is scheduled; nothing makes a datagram
\* arrive
SpecCancel ==
    InitCancel /\ [][NextCancel]_vars /\ \A t \in Tasks : WF_vars(TaskStep(t))

--------------------------------------------------------------------------
(* main() of agent "A" without --api: UPTAgent(), then                     *)
(* start_autonomous_operation().  In th, pc is where main is until the     *)
(* tasks run; fin.bind says whether the gossip port can be bound.          *)

NoKnowledge == [protocols |-> EmptyFn, translation_patterns |-> EmptyFn]

\* UPTAgent.__init__: load_knowledge_base returns empty knowledge when the
\* database cannot be opened
Construct(n) ==
    /\ th.name = "main"
    /\ th.pc = "entry"
    /\ pk' = [pk EXCEPT ![n] = LoadKnowledgeBase(db[n])]
    /\ gossip_pk' = [gossip_pk EXCEPT ![n] = LoadKnowledgeBase(db[n])]
    /\ th' = [th EXCEPT !.pc = "constructed"]
    /\ op' = [name |-> "construct", node |-> n]
    /\ UNCHANGED <<running, shared, db, net, routeVars, fin, calls>>

\* start_autonomous_operation up to its loop: the flag, then
\* MulticastKnowledgeSharing.start, whose bind raises OSError out of main
\* before any thread is started, then the threads
StartOperation(n) ==
    /\ th.name = "main"
    /\ th.pc = "constructed"
    /\ running' = [running EXCEPT ![n] = TRUE]
    /\ th' = IF fin.bind
             THEN [name |-> "tasks", sock |-> "open", pc |-> [t \in Tasks |-> "test"],
                   failed |-> "none"]
             ELSE [th EXCEPT !.pc = "terminated"]
    /\ op' = [name |-> "operate", node |-> n, raised |-> ~fin.bind]
    /\ UNCHANGED <<pk, gossip_pk, shared, db, net, routeVars, fin, calls>>

InitStartup ==
    /\ db \in {[n \in Nodes |-> IF n = "A" THEN d ELSE DbEmpty] :
                  d \in {DbClustered, DbRaw, DbDown}}
    /\ pk = [n \in Nodes |-> NoKnowledge]
    /\ gossip_pk = pk
    /\ shared = [n \in Nodes |-> TRUE]
    /\ running = [n \in Nodes |-> FALSE]
    /\ net = {}
    /\ routing_table = [n \in Nodes |-> EmptyFn]
    /\ decision_memory = [n \in Nodes |-> <<>>]
    /\ clock = [n \in Nodes |-> 0]
    /\ lb = [n \in Nodes |-> NoLb]
    /\ op = NoOp
    /\ fin \in {[name |-> "startup", bind |-> b] : b \in BOOLEAN}
    /\ calls = [n \in Nodes |-> <<>>]
    /\ th = [name |-> "main", pc |-> "entry"]

NextStartup ==
    \/ Construct("A")
    \/ StartOperation("A")
    \/ NextCancel

SpecStartup == InitStartup /\ [][NextStartup]_vars

--------------------------------------------------------------------------
(* Direct calls on one LoadBalancer: select_translator, update_metrics,    *)
(* with the seconds since its construction in clock                        *)

\* calls made on the balancer of a run
MaxSelects == 3

\* seconds between two calls when time passes, and the longest run
TickSeconds == 40

MaxSeconds == 80

\* numbers a caller may pass, and the strings calculate_priority returns
Priorities ==
    {[kind |-> "num", val |-> 0], [kind |-> "num", val |-> 5],
     CalculatePriority(EmptyFn), CalculatePriority(Pat("HTTP", "MQTT", 1))}

SelectCall(packet_priority, healthy, found) ==
    /\ fin.name = "balancer"
    /\ Len(calls["A"]) < MaxSelects
    /\ \E sel \in SelectTranslator(lb["A"], packet_priority, healthy, found,
                                   Epoch + clock["A"]) :
           /\ lb' = [lb EXCEPT !["A"] = sel.lb]
           /\ op' = [name |-> "select", priority |-> packet_priority,
                     healthy |-> healthy, raised |-> sel.raised, node |-> sel.node,
                     translator_nodes |-> sel.lb.translator_nodes,
                     metrics |-> sel.metrics, probabilities |-> sel.probabilities]
           /\ calls' = [calls EXCEPT !["A"] =
                            Append(@, [name |-> "select", refreshed |-> sel.refreshed,
                                       at |-> Epoch + clock["A"]])]
    /\ UNCHANGED <<running, pk, gossip_pk, shared, db, net,
                   routing_table, decision_memory, clock, fin, th>>

\* the load increments a caller passes, in tenths: the default, none, a
\* release of two units
LoadIncrements == {10, 0, -20}

UpdateMetricsCall(node, success, load_increment) ==
    /\ fin.name = "balancer"
    /\ Len(calls["A"]) < MaxSelects
    /\ lb' = [lb EXCEPT !["A"] = UpdateMetricsBy(@, node, success, load_increment,
                                                 Epoch + clock["A"])]
    /\ op' = [name |-> "metrics", node |-> node, success |-> success,
              load_increment |-> load_increment, before |-> lb["A"].node_metrics]
    /\ calls' = [calls EXCEPT !["A"] = Append(@, [name |-> "metrics"])]
    /\ UNCHANGED <<running, pk, gossip_pk, shared, db, net,
                   routing_table, decision_memory, clock, fin, th>>

Tick ==
    /\ fin.name = "balancer"
    /\ clock["A"] + TickSeconds <= MaxSeconds
    /\ clock' = [clock EXCEPT !["A"] = @ + TickSeconds]
    /\ op' = [name |-> "tick"]
    /\ UNCHANGED <<running, pk, gossip_pk, shared, db, net,
                   routing_table, decision_memory, lb, fin, th, calls>>

\* LoadBalancer.__init__ has run update_nodes
InitBalancer ==
    /\ db = [n \in Nodes |-> DbEmpty]
    /\ pk = [n \in Nodes |-> LoadKnowledgeBase(db[n])]
    /\ gossip_pk = pk
    /\ shared = [n \in Nodes |-> TRUE]
    /\ running = [n \in Nodes |-> FALSE]
    /\ net = {}
    /\ routing_table = [n \in Nodes |-> EmptyFn]
    /\ decision_memory = [n \in Nodes |-> <<>>]
    /\ clock = [n \in Nodes |-> 0]
    /\ lb \in {[n \in Nodes |-> IF n = "A" THEN UpdateNodes(found) ELSE NoLb] :
                  found \in FoundLists}
    /\ op = NoOp
    /\ fin = [name |-> "balancer"]
    /\ calls = [n \in Nodes |-> <<>>]
    /\ th = NoThreads

NextBalancer ==
    \/ \E packet_priority \in Priorities, healthy \in SUBSET Endpoints, found \in FoundLists :
           SelectCall(packet_priority, healthy, found)
    \/ \E node \in Endpoints, success \in BOOLEAN, load_increment \in LoadIncrements :
           UpdateMetricsCall(node, success, load_increment)
    \/ Tick

SpecBalancer == InitBalancer /\ [][NextBalancer]_vars

--------------------------------------------------------------------------
(* Fingerprints: the sniffer's clustering features and protocol DNA, the   *)
(* translator's identify_protocol.  A hex string is the sequence of its    *)
(* digits, each a number below 16; byte values stay below 128 so that the  *)
(* integer of four bytes fits the checker's integers.                      *)

\* longest packet of a fingerprint run
MaxLen == 9

\* rows of the fingerprints table a DNA file is generated from
MaxRows == 2

Bytes == {0, 91}

ByteSeqs == UNION {[1..k -> Bytes] : k \in 0..MaxLen}

\* bytes.hex()
RECURSIVE Hex(_)
Hex(raw) ==
    IF raw = <<>> THEN <<>>
    ELSE <<Head(raw) \div 16, Head(raw) % 16>> \o Hex(Tail(raw))

\* int(text, 16)
RECURSIVE IntOfHex(_)
IntOfHex(digits) ==
    IF digits = <<>> THEN 0
    ELSE 16 * IntOfHex(SubSeq(digits, 1, Len(digits) - 1)) + digits[Len(digits)]

\* raw[:4]
First4(raw) == SubSeq(raw, 1, Min(4, Len(raw)))

\* the header without the case of a short packet
HeaderRhythm_Unpadded(raw) == Hex(First4(raw))

\* raw[:4].hex() if len(raw) >= 4 else "0000"
HeaderRhythm(raw) == IF Len(raw) >= 4 THEN Hex(First4(raw)) ELSE <<0, 0, 0, 0>>

\* len(raw) % 8
PayloadBreathing(raw) == Len(raw) % 8

\* raw[-1] & 0b00001111 if raw else 0
ResponseTells(raw) == IF raw # <<>> THEN raw[Len(raw)] % 16 ELSE 0

\* analyze_packets: the feature vector of a row (id, packet_length, raw_packet)
ClusterFeatures(length, raw) ==
    <<length, IntOfHex(HeaderRhythm(raw)), PayloadBreathing(raw), ResponseTells(raw)>>

\* analyze_packets and generate_protocol_dna: the fingerprint of a DNA entry
DnaFingerprint(raw) ==
    [header_rhythm |-> HeaderRhythm(raw),
     payload_breathing |-> PayloadBreathing(raw),
     response_tells |-> ResponseTells(raw)]

\* identify_protocol: the three locals computed from packet_data
IdentifyFingerprint(packet_data) ==
    [header_rhythm |-> HeaderRhythm(packet_data),
     payload_breathing |-> PayloadBreathing(packet_data),
     response_tells |-> ResponseTells(packet_data)]

\* the DNA file generated from rows (protocol_name, raw_packet)
ProtocolDna(rows) ==
    [i \in 1..Len(rows) |->
        [protocol_name |-> rows[i].protocol_name, fingerprint |-> DnaFingerprint(rows[i].raw)]]

\* the loop of identify_protocol from entry i on
RECURSIVE IdentifyLoop(_, _, _)
IdentifyLoop(protocol_dna, fp, i) ==
    IF i > Len(protocol_dna) THEN "UNKNOWN"
    ELSE IF protocol_dna[i].fingerprint = fp THEN protocol_dna[i].protocol_name
         ELSE IdentifyLoop(protocol_dna, fp, i + 1)

IdentifyProtocol(protocol_dna, packet_data) ==
    IF packet_data = <<>> THEN "UNKNOWN"
    ELSE IdentifyLoop(protocol_dna, IdentifyFingerprint(packet_data), 1)

\* raw packets of stored rows: empty, shorter than 4 bytes, zero-led, others
StoredRaws ==
    {<<>>, <<91>>, <<0, 0, 0, 0, 0, 0, 0, 0>>, <<0, 0, 0, 0, 0, 0, 0, 0, 91>>,
     <<91, 0, 0, 91>>, <<0, 91, 0, 0, 91>>}

RowNames == {"Protocol_0", "Protocol_1"}

RowLists ==
    UNION {[1..k -> [protocol_name : RowNames, raw : StoredRaws]] : k \in 0..MaxRows}

\* rows with distinct names, as protocol_clusters has one row per cluster
DistinctRows(rows) == \A i, j \in 1..Len(rows) : rows[i].protocol_name = rows[j].protocol_name => i = j

FeaturesCall ==
    /\ fin.name = "fingerprint"
    /\ op' = [name |-> "features", features |-> ClusterFeatures(Len(fin.raw), fin.raw)]
    /\ UNCHANGED <<running, pk, gossip_pk, shared, db, net, routeVars, fin, th, calls>>

DnaCall ==
    /\ fin.name = "fingerprint"
    /\ op' = [name |-> "dna", fingerprint |-> DnaFingerprint(fin.raw)]
    /\ UNCHANGED <<running, pk, gossip_pk, shared, db, net, routeVars, fin, th, calls>>

IdentifyCall ==
    /\ fin.name = "fingerprint"
    /\ op' = [name |-> "identify",
              extracted |-> fin.raw # <<>>,
              fingerprint |-> IdentifyFingerprint(fin.raw),
              result |-> IdentifyProtocol(ProtocolDna(fin.rows), fin.raw)]
    /\ UNCHANGED <<running, pk, gossip_pk, shared, db, net, routeVars, fin, th, calls>>

InitFingerprint ==
    /\ db = [n \in Nodes |-> DbEmpty]
    /\ pk = [n \in Nodes |-> LoadKnowledgeBase(db[n])]
    /\ gossip_pk = pk
    /\ shared = [n \in Nodes |-> TRUE]
    /\ running = [n \in Nodes |-> FALSE]
    /\ net = {}
    /\ routing_table = [n \in Nodes |-> EmptyFn]
    /\ decision_memory = [n \in Nodes |-> <<>>]
    /\ clock = [n \in Nodes |-> 0]
    /\ lb = [n \in Nodes |-> NoLb]
    /\ op = NoOp
    /\ fin \in {[name |-> "fingerprint", raw |-> raw, rows |-> rows] :
                   raw \in ByteSeqs, rows \in {r \in RowLists : DistinctRows(r)}}
    /\ calls = [n \in Nodes |-> <<>>]
    /\ th = NoThreads

NextFingerprint == FeaturesCall \/ DnaCall \/ IdentifyCall

SpecFingerprint == InitFingerprint /\ [][NextFingerprint]_vars

--------------------------------------------------------------------------
(* MulticastSecurity: sign_knowledge and verify_knowledge.  A knowledge    *)
(* dict is the sequence of its items in insertion order; a value is a str  *)
(* or a bytes object, which json.dumps cannot serialise.  A signature is   *)
(* the empty str, a hex digest, or None.                                   *)

MaxItems == 2

SecretKeys == {"upt_secure_2025", "other"}

DictKeys == {"patterns", "protocol"}

DictValues == {[kind |-> "str", v |-> "HTTP"], [kind |-> "str", v |-> "MQTT"],
               [kind |-> "bytes", v |-> "HTTP"]}

KnowledgeDicts ==
    UNION {{k \in [1..len -> [key : DictKeys, value : DictValues]] :
               \A i, j \in 1..len : k[i].key = k[j].key => i = j} :
           len \in 0..Min(MaxItems, Cardinality(DictKeys))}

\* the items of the dict by ascending key: "patterns" < "protocol"
SortKeys(knowledge) ==
    SelectSeq(knowledge, LAMBDA item : item.key = "patterns")
        \o SelectSeq(knowledge, LAMBDA item : item.key = "protocol")

\* json.dumps(knowledge, sort_keys=True): raises TypeError on a bytes value
JsonDumps(knowledge) ==
    IF \E i \in DOMAIN knowledge : knowledge[i].value.kind = "bytes"
      THEN [raised |-> TRUE]
      ELSE [raised |-> FALSE, data |-> SortKeys(knowledge)]

EmptyStr == [kind |-> "str", hex |-> FALSE]

\* hmac.new(key, data, sha256).hexdigest(): 64 hex digits, taken injective
HexDigest(key, data) == [kind |-> "str", hex |-> TRUE, key |-> key, data |-> data]

\* the except clause returns "" in place of a digest
sign_knowledge(key, knowledge) ==
    IF JsonDumps(knowledge).raised
      THEN EmptyStr
      ELSE HexDigest(key, JsonDumps(knowledge).data)

\* signature.encode() raises on None and the except clause returns False;
\* compare_digest is equality of the two byte strings
verify_knowledge(key, knowledge, signature) ==
    IF signature.kind # "str"
      THEN FALSE
      ELSE sign_knowledge(key, knowledge) = signature

Signatures ==
    {sign_knowledge(key, k) : key \in SecretKeys, k \in KnowledgeDicts}
        \cup {EmptyStr, [kind |-> "none"]}

\* signature = security.sign_knowledge(knowledge)
SignCall ==
    /\ fin.name = "hmac"
    /\ op' = [name |-> "sign", result |-> sign_knowledge(fin.key, fin.knowledge)]
    /\ UNCHANGED <<running, pk, gossip_pk, shared, db, net, routeVars, fin, th, calls>>

\* security.verify_knowledge(knowledge, signature) with the signature the
\* preceding sign_knowledge returned
VerifyOwnCall ==
    /\ fin.name = "hmac"
    /\ op.name = "sign"
    /\ op' = [name |-> "verify", signature |-> op.result,
              result |-> verify_knowledge(fin.key, fin.knowledge, op.result)]
    /\ UNCHANGED <<running, pk, gossip_pk, shared, db, net, routeVars, fin, th, calls>>

\* security.verify_knowledge(knowledge, signature) with a signature received
VerifyCall ==
    /\ fin.name = "hmac"
    /\ op' = [name |-> "verify", signature |-> fin.signature,
              result |-> verify_knowledge(fin.key, fin.knowledge, fin.signature)]
    /\ UNCHANGED <<running, pk, gossip_pk, shared, db, net, routeVars, fin, th, calls>>

InitHmac ==
    /\ db = [n \in Nodes |-> DbEmpty]
    /\ pk = [n \in Nodes |-> LoadKnowledgeBase(db[n])]
    /\ gossip_pk = pk
    /\ shared = [n \in Nodes |-> TRUE]
    /\ running = [n \in Nodes |-> FALSE]
    /\ net = {}
    /\ routing_table = [n \in Nodes |-> EmptyFn]
    /\ decision_memory = [n \in Nodes |-> <<>>]
    /\ clock = [n \in Nodes |-> 0]
    /\ lb = [n \in Nodes |-> NoLb]
    /\ op = NoOp
    /\ fin \in {[name |-> "hmac", key |-> key, knowledge |-> k, signature |-> sig] :
                   key \in SecretKeys, k \in KnowledgeDicts, sig \in Signatures}
    /\ calls = [n \in Nodes |-> <<>>]
    /\ th = NoThreads

NextHmac == SignCall \/ VerifyOwnCall \/ VerifyCall

SpecHmac == InitHmac /\ [][NextHmac]_vars

--------------------------------------------------------------------------
(* The decision loop over the rows of the fingerprints table: which rows   *)
(* a pass of process_pending_decisions reads, and which get a turn.  The   *)
(* turn itself is RoutePacket and Dispatch above; here only the row it is  *)
(* for is followed.                                                        *)

\* LIMIT 10 of the query
Limit == 10

\* rows of the fingerprints table in the runs of the decision loop
MaxPending == 12

\* f"Protocol_{label}"
ProtocolName(label) == IF label = 0 THEN "Protocol_0" ELSE "Protocol_1"

\* the cluster ids the rows carry, the sentinel aside
ClusterIds(rows) == {rows[i].cluster_id : i \in DOMAIN rows} \ {-1}

\* the rows of fingerprints that carry cluster id c
Members(rows, c) == {i \in DOMAIN rows : rows[i].cluster_id = c}

\* packets.db: `rows` are the rows of fingerprints in id order, each
\* [packet_length, raw_packet, cluster_id], and protocol_clusters holds one
\* row per cluster id with the number of its members
DbRows(rows) ==
    [ok |-> TRUE,
     clusters |-> [k \in {IntKey(c) : c \in ClusterIds(rows)} |->
                      LET c == CHOOSE x \in ClusterIds(rows) : IntKey(x) = k
                      IN  [name |-> ProtocolName(c), count |-> Cardinality(Members(rows, c))]],
     fingerprints |-> <<>>, table |-> TRUE, sessions |-> EmptyFn, rows |-> rows]

\* store_packet / extract_features: the row of a captured packet
StoredRow(raw, cluster_id) ==
    [packet_length |-> Len(raw), raw_packet |-> raw, cluster_id |-> cluster_id]

\* the tables in the runs of the decision loop: 2, 11 or 12 rows of cluster
\* 0, some of the first three left unclustered
RowChoices ==
    {[i \in 1..len |-> StoredRow(HttpPacket, IF i \in noise THEN -1 ELSE 0)] :
        len \in {2, MaxPending - 1, MaxPending}, noise \in SUBSET (1..3)}

\* the ids of the rows awaiting a decision
Pending(d) == {i \in DOMAIN d.rows : d.rows[i].cluster_id # -1}

RECURSIVE Fetch(_, _, _)
\* SELECT ... WHERE cluster_id != -1 LIMIT limit: a scan in rowid order from
\* row i on that ends after `limit` rows
Fetch(d, i, limit) ==
    IF i > Len(d.rows) \/ limit = 0 THEN <<>>
    ELSE IF d.rows[i].cluster_id # -1 THEN <<i>> \o Fetch(d, i + 1, limit - 1)
    ELSE Fetch(d, i + 1, limit)

\* process_pending_decisions up to fetchall
FetchPending(n) ==
    /\ running[n]
    /\ th.pc = "while"
    /\ th' = [th EXCEPT !.pc = "for", !.packets = Fetch(db[n], 1, Limit), !.i = 1]
    /\ op' = [name |-> "fetch", node |-> n]
    /\ UNCHANGED <<running, pk, gossip_pk, shared, db, net, routeVars, fin, calls>>

\* one iteration of `for raw_packet, source_protocol in packets`
Turn(n) ==
    /\ th.pc = "for"
    /\ th.i <= Len(th.packets)
    /\ LET row == th.packets[th.i]
       IN  /\ th' = [th EXCEPT !.i = @ + 1, !.handled = @ \cup {row}]
           /\ op' = [name |-> "turn", node |-> n, row |-> row, again |-> row \in th.handled]
    /\ UNCHANGED <<running, pk, gossip_pk, shared, db, net, routeVars, fin, calls>>

\* the loop is over: the pass logs and returns, the decision loop sleeps 0.1 s
Sleep(n) ==
    /\ th.pc = "for"
    /\ th.i > Len(th.packets)
    /\ th' = [th EXCEPT !.pc = "while"]
    /\ op' = [name |-> "sleep", node |-> n, processed |-> Len(th.packets)]
    /\ UNCHANGED <<running, pk, gossip_pk, shared, db, net, routeVars, fin, calls>>

InitDrain ==
    /\ db \in {[n \in Nodes |-> IF n = "A" THEN DbRows(rows) ELSE DbEmpty] :
                  rows \in RowChoices}
    /\ pk = [n \in Nodes |-> LoadKnowledgeBase(db[n])]
    /\ gossip_pk = pk
    /\ shared = [n \in Nodes |-> TRUE]
    /\ running = [n \in Nodes |-> FALSE]
    /\ net = {}
    /\ routing_table = [n \in Nodes |-> EmptyFn]
    /\ decision_memory = [n \in Nodes |-> <<>>]
    /\ clock = [n \in Nodes |-> 0]
    /\ lb = [n \in Nodes |-> NoLb]
    /\ op = NoOp
    /\ fin = [name |-> "drain"]
    /\ calls = [n \in Nodes |-> <<>>]
    /\ th = [name |-> "drain", pc |-> "while", packets |-> <<>>, i |-> 1, handled |-> {}]

DecisionLoop(n) ==
    \/ StartAutonomousOperation(n)
    \/ FetchPending(n)
    \/ Turn(n)
    \/ Sleep(n)

NextDrain == DecisionLoop("A")

\* the decision loop is a thread of its own that nothing blocks
SpecDrain == InitDrain /\ [][NextDrain]_vars /\ WF_vars(DecisionLoop("A"))

--------------------------------------------------------------------------
(* The sniffer: store_packet and the periodic analyze_packets *)

\* min_samples of the clustering call
MinSamples == 5

\* rows the sniffer stores in a run
MaxStored == 6

\* packets the sniffer captures
SnifferRaws == {<<69>>, <<69, 0>>}

\* store_packet: INSERT with the default cluster_id -1
StorePacket(n, raw) ==
    /\ Len(db[n].rows) < MaxStored
    /\ db' = [db EXCEPT ![n].rows = Append(@, StoredRow(raw, -1))]
    /\ op' = [name |-> "store", node |-> n]
    /\ UNCHANGED <<running, pk, gossip_pk, shared, net, routeVars, fin, th, calls>>

\* the rows SELECT ... WHERE cluster_id = -1 returns
Unclustered(d) == {i \in DOMAIN d.rows : d.rows[i].cluster_id = -1}

\* analyze_packets: no row, or the feature vectors and then the call of
\* DBSCAN, a name sniffer.py neither imports nor defines: NameError, caught
\* and logged by the except clause before any UPDATE
AnalyzePackets(n) ==
    /\ LET packets == Unclustered(db[n])
           features == [i \in packets |->
                           ClusterFeatures(db[n].rows[i].packet_length,
                                           db[n].rows[i].raw_packet)]
       IN  op' = [name |-> "analyze", node |-> n, packets |-> packets,
                  features |-> features, raised |-> packets # {}, before |-> db[n]]
    /\ UNCHANGED <<running, pk, gossip_pk, shared, db, net, routeVars, fin, th, calls>>

\* a fresh packets.db, or one that comes with five clustered rows
InitSniffer ==
    /\ db \in {[n \in Nodes |-> IF n = "A" THEN DbRows(rows) ELSE DbEmpty] :
                  rows \in {<<>>, [i \in 1..MinSamples |-> StoredRow(<<69>>, 0)]}}
    /\ pk = [n \in Nodes |-> LoadKnowledgeBase(db[n])]
    /\ gossip_pk = pk
    /\ shared = [n \in Nodes |-> TRUE]
    /\ running = [n \in Nodes |-> FALSE]
    /\ net = {}
    /\ routing_table = [n \in Nodes |-> EmptyFn]
    /\ decision_memory = [n \in Nodes |-> <<>>]
    /\ clock = [n \in Nodes |-> 0]
    /\ lb = [n \in Nodes |-> NoLb]
    /\ op = NoOp
    /\ fin = [name |-> "sniffer"]
    /\ calls = [n \in Nodes |-> <<>>]
    /\ th = NoThreads

NextSniffer ==
    \/ \E raw \in SnifferRaws : StorePacket("A", raw)
    \/ AnalyzePackets("A")

SpecSniffer == InitSniffer /\ [][NextSniffer]_vars

--------------------------------------------------------------------------
(* Traffic monitoring: the rows of the last five minutes and the alerts *)

\* packet counts and source counts on both sides of the default thresholds
\* and of the thresholds of the configuration file of these runs
TrafficStats ==
    [packet_count : {3000, 3001, 15000, 15001}, unique_sources : {1, 2, 100, 101}]

\* what the GROUP BY protocol query may return
TrafficRows ==
    {[p \in P |-> f[p]] : P \in SUBSET {"HTTP", "MQTT"},
                          f \in [{"HTTP", "MQTT"} -> TrafficStats]}

\* agent_config.yaml of these runs
Configs == {[max_throughput |-> 2, max_connections_per_second |-> 1]}

\* the sniffer stores packets: the rows of the five minutes change
Capture(traffic_data) ==
    /\ th.name = "traffic"
    /\ th' = [th EXCEPT !.rows = traffic_data]
    /\ op' = [name |-> "capture"]
    /\ UNCHANGED <<running, pk, gossip_pk, shared, db, net, routeVars, fin, calls>>

InitTraffic ==
    /\ db = [n \in Nodes |-> IF n = "A" THEN DbLearned ELSE DbEmpty]
    /\ pk = [n \in Nodes |-> LoadKnowledgeBase(db[n])]
    /\ gossip_pk = pk
    /\ shared = [n \in Nodes |-> TRUE]
    /\ running = [n \in Nodes |-> FALSE]
    /\ net = {}
    /\ routing_table = [n \in Nodes |-> EmptyFn]
    /\ decision_memory = [n \in Nodes |-> <<>>]
    /\ clock = [n \in Nodes |-> 0]
    /\ lb = [n \in Nodes |-> NoLb]
    /\ op = NoOp
    /\ fin \in {[name |-> "traffic"]} \cup {[name |-> "traffic", config |-> c] : c \in Configs}
    /\ calls = [n \in Nodes |-> <<>>]
    /\ th = [name |-> "traffic", rows |-> EmptyFn]

NextTraffic ==
    \/ StartAutonomousOperation("A")
    \/ \E traffic_data \in TrafficRows : Capture(traffic_data)
    \/ AnalyzeNetworkPatterns("A", th.rows)

SpecTraffic == InitTraffic /\ [][NextTraffic]_vars

--------------------------------------------------------------------------
(* The gossip sender statement by statement: the dict display of           *)
(* _send_knowledge calls _sign_knowledge, which serialises the two fields  *)
(* of the live dict; json.dumps(knowledge) then serialises the same live   *)
(* dicts once more.  The threads of the agent run between the two.         *)

\* "signature": self._sign_knowledge(protocol_knowledge)
SignStep(n) ==
    /\ running[n]
    /\ th.pc[n] = "sign"
    /\ th' = [th EXCEPT !.pc[n] = "dumps",
                        !.signature[n] = SignKnowledge(gossip_pk[n].protocols,
                                                       gossip_pk[n].translation_patterns)]
    /\ op' = [name |-> "sign", node |-> n]
    /\ UNCHANGED <<running, pk, gossip_pk, shared, db, net, routeVars, fin, calls>>

\* json.dumps(knowledge), sendto, sleep(60)
DumpsStep(n) ==
    /\ th.pc[n] = "dumps"
    /\ LET m == [node_id |-> NodeIdOf(n),
                 protocols |-> DumpProtocols(gossip_pk[n].protocols),
                 translation_patterns |-> gossip_pk[n].translation_patterns,
                 signature |-> th.signature[n]]
       IN  /\ Cardinality(net \cup {m}) <= fin.net
           /\ net' = net \cup {m}
           /\ op' = [name |-> "send", node |-> n, msg |-> m]
    /\ th' = [th EXCEPT !.pc[n] = "sign"]
    /\ Log(n, [name |-> "send"])
    /\ UNCHANGED <<running, pk, gossip_pk, shared, db, routeVars, fin>>

InitSender ==
    /\ db \in DbAssignments
    /\ pk = [n \in Nodes |-> LoadKnowledgeBase(db[n])]
    /\ gossip_pk = pk
    /\ shared = [n \in Nodes |-> TRUE]
    /\ running = [n \in Nodes |-> FALSE]
    /\ net = {}
    /\ routing_table = [n \in Nodes |-> EmptyFn]
    /\ decision_memory = [n \in Nodes |-> <<>>]
    /\ clock = [n \in Nodes |-> 0]
    /\ lb = [n \in Nodes |-> NoLb]
    /\ op = NoOp
    /\ fin = GossipFin
    /\ calls = [n \in Nodes |-> <<>>]
    /\ th = [name |-> "sender", pc |-> [n \in Nodes |-> "sign"],
             signature |-> [n \in Nodes |-> EmptyFn]]

NextSender ==
    \/ \E n \in Nodes : StartAutonomousOperation(n)
    \/ \E n \in Nodes : SignStep(n)
    \/ \E n \in Nodes : DumpsStep(n)
    \/ \E n \in Nodes, m \in net : ReceiveKnowledge(n, m)
    \/ \E m \in net : Drop(m)
    \/ \E n \in Nodes, r \in GossipFeedbacks : Feedback(n, r)
    \/ \E n \in Nodes : ContinuousLearning(n)

SpecSender == InitSender /\ [][NextSender]_vars

--------------------------------------------------------------------------
(* Specification of two nodes gossiping over a transport that alters       *)
(* nothing: every datagram in flight is one a sender built                 *)

InitHonest ==
    /\ db \in {[n \in Nodes |-> DbClustered],
               [n \in Nodes |-> IF n = "A" THEN DbClustered ELSE DbRaw]}
    /\ pk = [n \in Nodes |-> LoadKnowledgeBase(db[n])]
    /\ gossip_pk = pk
    /\ shared = [n \in Nodes |-> TRUE]
    /\ running = [n \in Nodes |-> FALSE]
    /\ net = {}
    /\ routing_table = [n \in Nodes |-> EmptyFn]
    /\ decision_memory = [n \in Nodes |-> <<>>]
    /\ clock = [n \in Nodes |-> 0]
    /\ lb = [n \in Nodes |-> NoLb]
    /\ op = NoOp
    /\ fin = [name |-> "honest", cap |-> RoundCap, net |-> MaxNet, log |-> TRUE]
    /\ calls = [n \in Nodes |-> <<>>]
    /\ th = NoThreads

NextHonest ==
    \/ \E n \in Nodes : StartAutonomousOperation(n)
    \/ \E n \in Nodes : Len(calls[n]) < MaxCalls /\ SendKnowledge(n)
    \/ \E n \in Nodes, m \in net : Deliveries(n) < MaxDeliveries /\ ReceiveKnowledge(n, m)
    \/ \E m \in net : Drop(m)

SpecHonest == InitHonest /\ [][NextHonest]_vars

--------------------------------------------------------------------------
(* _verify_signature on pairs of received dicts that differ in node_id and *)
(* timestamp at most                                                       *)

\* the instants a datagram may be stamped with
Timestamps == {0, 1}

\* the knowledge a datagram of these runs carries
CarriedKnowledge == {LoadKnowledgeBase(DbClustered), LoadKnowledgeBase(DbRaw)}

\* what a datagram may carry as its signature: the hash _sign_knowledge
\* computes, or a hash that covers a node_id or a timestamp as well
CarriedSignatures(k) ==
    {SignKnowledge(k.protocols, k.translation_patterns)} \cup
    {[sha256 |-> <<DumpProtocols(k.protocols), k.translation_patterns, x>>] :
        x \in AllIds} \cup
    {[sha256 |-> <<DumpProtocols(k.protocols), k.translation_patterns, "at", x>>] :
        x \in Timestamps}

\* json.loads of a datagram with all five fields of _send_knowledge
ReceivedDict(node_id, timestamp, k, signature) ==
    [node_id |-> node_id, timestamp |-> timestamp,
     protocols |-> LoadProtocols(DumpProtocols(k.protocols)),
     translation_patterns |-> k.translation_patterns,
     signature |-> signature]

\* _receive_knowledge of node n on a parsed dict, up to update_callback
Verdict(n, knowledge) ==
    IF knowledge.node_id = NodeIdOf(n) THEN "own"
    ELSE IF ~VerifySignature(knowledge) THEN "invalid"
    ELSE "merge"

\* two dicts with the same protocols, translation_patterns and signature
VerifyPair(n, k, signature, id1, t1, id2, t2) ==
    /\ LET first == ReceivedDict(id1, t1, k, signature)
           second == ReceivedDict(id2, t2, k, signature)
       IN  op' = [name |-> "verify2", node |-> n, first |-> first, second |-> second,
                  verified |-> <<VerifySignature(first), VerifySignature(second)>>,
                  verdict |-> <<Verdict(n, first), Verdict(n, second)>>]
    /\ UNCHANGED <<running, pk, gossip_pk, shared, db, net, routeVars, fin, th, calls>>

InitVerdict ==
    /\ db = [n \in Nodes |-> DbEmpty]
    /\ pk = [n \in Nodes |-> LoadKnowledgeBase(db[n])]
    /\ gossip_pk = pk
    /\ shared = [n \in Nodes |-> TRUE]
    /\ running = [n \in Nodes |-> TRUE]
    /\ net = {}
    /\ routing_table = [n \in Nodes |-> EmptyFn]
    /\ decision_memory = [n \in Nodes |-> <<>>]
    /\ clock = [n \in Nodes |-> 0]
    /\ lb = [n \in Nodes |-> NoLb]
    /\ op = NoOp
    /\ fin = [name |-> "verdict"]
    /\ calls = [n \in Nodes |-> <<>>]
    /\ th = NoThreads

NextVerdict ==
    \E k \in CarriedKnowledge, id1, id2 \in AllIds, t1, t2 \in Timestamps :
        \E signature \in CarriedSignatures(k) :
            VerifyPair("A", k, signature, id1, t1, id2, t2)

SpecVerdict == InitVerdict /\ [][NextVerdict]_vars

--------------------------------------------------------------------------
(* The daemon: start, the monitor loop, stop *)

\* the components in the order start() starts them
Components == <<"sniffer", "translator", "agent">>

\* the command and the working directory start() gives each component
Command(name) ==
    IF name = "sniffer" THEN <<"python", "sniffer.py", "-i", "Wi-Fi", "-f", "tcp">>
    ELSE IF name = "translator" THEN <<"python", "translator_server.py">>
    ELSE <<"python", "agent.py">>

Cwd(name) ==
    IF name = "sniffer" THEN "../Sniffer"
    ELSE IF name = "translator" THEN "../Translator"
    ELSE "../Agent"

\* the attributes of a subprocess.Popen object the daemon reads: args,
\* whether the child runs, and the exit code poll() reports once it does
\* not; cwd is handed to the child and not kept
Popen(command, cwd) == [args |-> command, alive |-> TRUE, returncode |-> 0]

\* start_process: `ok` is whether Popen returns instead of raising
StartProcess(processes, name, command, cwd, ok) ==
    IF ok
    THEN [x \in DOMAIN processes \cup {name} |->
             IF x = name THEN Popen(command, cwd) ELSE processes[x]]
    ELSE processes

\* one pass of the for loop of monitor_processes over `todo`, the names of
\* list(self.processes.items()) still to visit: process.args and process.cwd
\* of a terminated process are read, the second being an attribute a Popen
\* object does not have
RECURSIVE MonitorPass(_, _)
MonitorPass(processes, todo) ==
    IF todo = <<>>
    THEN [raised |-> FALSE, processes |-> processes]
    ELSE LET name == Head(todo)
             process == processes[name]
         IN  IF process.alive
             THEN MonitorPass(processes, Tail(todo))
             ELSE IF "cwd" \notin DOMAIN process
             THEN [raised |-> TRUE, processes |-> processes]
             ELSE MonitorPass(
                      StartProcess(processes, name, process.args, process.cwd, TRUE),
                      Tail(todo))

\* the names of self.processes in insertion order
Tracked(processes) == SelectSeq(Components, LAMBDA name : name \in DOMAIN processes)

\* a component process ends by itself
Terminate(name, exit_code) ==
    /\ th.name = "daemon"
    /\ IF name \in DOMAIN th.processes THEN th.processes[name].alive ELSE FALSE
    /\ th' = [th EXCEPT !.processes[name].alive = FALSE,
                        !.processes[name].returncode = exit_code]
    /\ op' = [name |-> "terminate", component |-> name]
    /\ UNCHANGED <<running, pk, gossip_pk, shared, db, net, routeVars, fin, calls>>

\* one pass of `while self.running` in monitor_processes and the sleep after
\* it; an exception of the pass leaves the loop, start() and main()
Monitor ==
    /\ th.name = "daemon"
    /\ th.pc = "monitor"
    /\ th.running
    /\ LET pass == MonitorPass(th.processes, Tracked(th.processes))
       IN  /\ th' = [th EXCEPT !.processes = pass.processes,
                               !.pc = IF pass.raised THEN "raised" ELSE "monitor"]
           /\ op' = [name |-> "monitor", raised |-> pass.raised]
    /\ UNCHANGED <<running, pk, gossip_pk, shared, db, net, routeVars, fin, calls>>

\* KeyboardInterrupt in main: stop() clears running and terminates every
\* tracked process
StopDaemon ==
    /\ th.name = "daemon"
    /\ th.pc = "monitor"
    /\ th.running
    /\ th' = [th EXCEPT !.running = FALSE,
                        !.pc = "stopped",
                        !.processes = [x \in DOMAIN @ |-> [@[x] EXCEPT !.alive = FALSE]]]
    /\ op' = [name |-> "stop"]
    /\ UNCHANGED <<running, pk, gossip_pk, shared, db, net, routeVars, fin, calls>>

RECURSIVE StartAll(_, _, _)
\* the three start_process calls of start(); `failing` are the components
\* whose Popen raises
StartAll(processes, todo, failing) ==
    IF todo = <<>> THEN processes
    ELSE StartAll(StartProcess(processes, Head(todo), Command(Head(todo)), Cwd(Head(todo)),
                               Head(todo) \notin failing),
                  Tail(todo), failing)

\* the daemon after start() has started its components
InitDaemon ==
    /\ db = [n \in Nodes |-> DbEmpty]
    /\ pk = [n \in Nodes |-> LoadKnowledgeBase(db[n])]
    /\ gossip_pk = pk
    /\ shared = [n \in Nodes |-> TRUE]
    /\ running = [n \in Nodes |-> FALSE]
    /\ net = {}
    /\ routing_table = [n \in Nodes |-> EmptyFn]
    /\ decision_memory = [n \in Nodes |-> <<>>]
    /\ clock = [n \in Nodes |-> 0]
    /\ lb = [n \in Nodes |-> NoLb]
    /\ op = NoOp
    /\ fin = [name |-> "daemon"]
    /\ calls = [n \in Nodes |-> <<>>]
    /\ \E failing \in SUBSET {"sniffer", "translator", "agent"} :
           th = [name |-> "daemon", running |-> TRUE, pc |-> "monitor",
                 processes |-> StartAll(EmptyFn, Components, failing)]

NextDaemon ==
    \/ \E name \in {"sniffer", "translator", "agent"}, exit_code \in {0, 1} :
           Terminate(name, exit_code)
    \/ Monitor
    \/ StopDaemon

\* the monitor loop is the daemon's main thread and sleeps 5 s a pass
SpecDaemon == InitDaemon /\ [][NextDaemon]_vars /\ WF_vars(Monitor)

--------------------------------------------------------------------------
(* The translation server and its database connection *)

\* the default of connect_to_db's retries parameter
ConnectRetries == 5

\* session rows the runs record
MaxSessions == 3

RECURSIVE ConnectLoop(_, _, _, _)
\* `for attempt in range(retries)` of connect_to_db from iteration `attempt`
\* on, the first `failures` attempts raising sqlite3.Error; s is
\* [connection_db, table].  The finally clause runs after every attempt,
\* the returning one included: it closes the connection and clears
\* connection_db
ConnectLoop(s, retries, failures, attempt) ==
    IF attempt >= retries
    THEN [returned |-> FALSE, attempts |-> attempt, connection_db |-> s.connection_db,
          table |-> s.table]
    ELSE IF attempt < failures
    THEN ConnectLoop([s EXCEPT !.connection_db = "None"], retries, failures, attempt + 1)
    ELSE [returned |-> TRUE, attempts |-> attempt + 1, connection_db |-> "None",
          table |-> TRUE]

\* connect_to_db(retries): False at once when the directory is not writable
ConnectToDb(s, retries, writable, failures) ==
    IF ~writable
    THEN [returned |-> FALSE, attempts |-> 0, connection_db |-> s.connection_db,
          table |-> s.table]
    ELSE ConnectLoop(s, retries, failures, 0)

\* start_server up to serve_forever
StartServer(writable, failures) ==
    /\ th.name = "server"
    /\ th.pc = "init"
    /\ LET r == ConnectToDb(th, ConnectRetries, writable, failures)
       IN  /\ th' = [th EXCEPT !.pc = IF r.returned THEN "serving" ELSE "refused",
                               !.connection_db = r.connection_db,
                               !.table = r.table]
           /\ op' = [name |-> "connect", returned |-> r.returned, attempts |-> r.attempts,
                     failures |-> failures, writable |-> writable]
    /\ UNCHANGED <<running, pk, gossip_pk, shared, db, net, routeVars, fin, calls>>

\* do_POST on /translate: process_translation_request inserts a session row
\* if self.connection_db is set
ServeRequest(source_data, target_protocol, codec) ==
    /\ th.name = "server"
    /\ th.pc = "serving"
    /\ th.requests < MaxSessions
    /\ LET recorded == th.connection_db # "None"
       IN  /\ th' = [th EXCEPT !.requests = @ + 1,
                               !.sessions = IF recorded THEN @ + 1 ELSE @]
           /\ op' = [name |-> "request", recorded |-> recorded,
                     source_data |-> source_data, target_protocol |-> target_protocol,
                     response |-> DoPost(source_data, target_protocol, codec)]
    /\ UNCHANGED <<running, pk, gossip_pk, shared, db, net, routeVars, fin, calls>>

\* a server just constructed, translation_sessions.db with or without its table
InitServer ==
    /\ db = [n \in Nodes |-> DbEmpty]
    /\ pk = [n \in Nodes |-> LoadKnowledgeBase(db[n])]
    /\ gossip_pk = pk
    /\ shared = [n \in Nodes |-> TRUE]
    /\ running = [n \in Nodes |-> FALSE]
    /\ net = {}
    /\ routing_table = [n \in Nodes |-> EmptyFn]
    /\ decision_memory = [n \in Nodes |-> <<>>]
    /\ clock = [n \in Nodes |-> 0]
    /\ lb = [n \in Nodes |-> NoLb]
    /\ op = NoOp
    /\ fin = [name |-> "server"]
    /\ calls = [n \in Nodes |-> <<>>]
    /\ \E table \in BOOLEAN :
           th = [name |-> "server", pc |-> "init", connection_db |-> "None",
                 table |-> table, sessions |-> 0, requests |-> 0]

NextServer ==
    \/ \E writable \in BOOLEAN, failures \in 0..(ConnectRetries + 1) :
           StartServer(writable, failures)
    \/ \E source_data \in Packets, target_protocol \in Translators \cup {"HTTP"},
          codec \in Codecs :
           ServeRequest(source_data, target_protocol, codec)

SpecServer == InitServer /\ [][NextServer]_vars

--------------------------------------------------------------------------
(* Properties of the gossip receiver *)

\* the signature a datagram carries is not the one recomputed over the
\* protocols and translation_patterns it carries
Tampered(m) ==
    LET k == ParseDatagram(m)
    IN  k.signature # SignKnowledge(k.protocols, k.translation_patterns)

\* the datagram names some count
CarriesCounts(m) ==
    \/ m.protocols # <<>>
    \/ \E s \in DOMAIN m.translation_patterns : DOMAIN m.translation_patterns[s] # {}

\* C1: a received datagram whose signature does not match the signature
\* recomputed over its protocols and translation_patterns is not merged, and
\* the receiver's protocols and translation patterns are the same after the
\* delivery as before it.
C1_TamperedNeverMerged ==
    [][\A n \in Nodes :
          (op'.name = "receive" /\ op'.node = n /\ Tampered(op'.msg))
              => (~op'.merged /\ pk'[n] = pk[n] /\ gossip_pk'[n] = gossip_pk[n])]_vars

\* a tampered datagram from another node, naming counts, was delivered
C1_Witness ==
    /\ op.name = "receive"
    /\ Tampered(op.msg)
    /\ CarriesCounts(op.msg)
    /\ op.msg.node_id # NodeIdOf(op.node)
    /\ ~op.merged

\* C2: a received datagram whose node_id is the receiver's own is not merged
\* and changes nothing in the receiver's knowledge, valid signature or not.
C2_SelfNeverMerged ==
    [][\A n \in Nodes :
          (op'.name = "receive" /\ op'.node = n /\ op'.msg.node_id = NodeIdOf(n))
              => (~op'.merged /\ pk'[n] = pk[n] /\ gossip_pk'[n] = gossip_pk[n])]_vars

\* a node received its own broadcast, correctly signed and naming counts
C2_Witness ==
    /\ op.name = "receive"
    /\ op.msg.node_id = NodeIdOf(op.node)
    /\ ~Tampered(op.msg)
    /\ CarriesCounts(op.msg)
    /\ ~op.merged

--------------------------------------------------------------------------
(* Properties of merge_knowledge *)

ProtocolCounts(k) == [c \in DOMAIN k.protocols |-> k.protocols[c].count]

\* the pairs of a pattern map
Pairs(pats) == UNION {{<<s, t>> : t \in DOMAIN pats[s]} : s \in DOMAIN pats}

PairCounts(k) ==
    [p \in Pairs(k.translation_patterns) |-> k.translation_patterns[p[1]][p[2]]]

MergeOf(snap) == [name |-> "merge", arg |-> snap]

\* C3: merging snapshot A then B into a store gives the same protocol counts
\* and the same (source, target) success counts as merging B then A into it.
C3_MergeCommutes ==
    (calls["A"] = <<MergeOf(fin.A), MergeOf(fin.B)>> /\
     calls["B"] = <<MergeOf(fin.B), MergeOf(fin.A)>>)
        => /\ ProtocolCounts(pk["A"]) = ProtocolCounts(pk["B"])
           /\ PairCounts(pk["A"]) = PairCounts(pk["B"])

\* both orders were run with two snapshots that name a cluster and a pair the
\* store already holds, with different counts
C3_Witness ==
    /\ calls["A"] = <<MergeOf(fin.A), MergeOf(fin.B)>>
    /\ calls["B"] = <<MergeOf(fin.B), MergeOf(fin.A)>>
    /\ \E c \in DOMAIN fin.K.protocols :
           /\ c \in DOMAIN fin.A.protocols /\ c \in DOMAIN fin.B.protocols
           /\ fin.A.protocols[c].count # fin.B.protocols[c].count
    /\ \E p \in Pairs(fin.A.translation_patterns) \cap Pairs(fin.B.translation_patterns) :
           PairCounts(fin.A)[p] # PairCounts(fin.B)[p]
    /\ pk["A"] # fin.K

\* the result r holds, for every key, the count of the store k plus `times`
\* the count of the snapshot, a key of neither being in neither
Additive(k, snap, r, times) ==
    /\ DOMAIN r.protocols = DOMAIN k.protocols \cup DOMAIN snap.protocols
    /\ \A c \in DOMAIN r.protocols :
           IF c \notin DOMAIN snap.protocols THEN r.protocols[c] = k.protocols[c]
           ELSE IF c \notin DOMAIN k.protocols
           THEN r.protocols[c].count = times * snap.protocols[c].count
           ELSE r.protocols[c].count = k.protocols[c].count + times * snap.protocols[c].count
    /\ DOMAIN r.translation_patterns =
           DOMAIN k.translation_patterns \cup DOMAIN snap.translation_patterns
    /\ Pairs(r.translation_patterns) =
           Pairs(k.translation_patterns) \cup Pairs(snap.translation_patterns)
    /\ \A p \in Pairs(r.translation_patterns) :
           IF p \notin Pairs(snap.translation_patterns) THEN PairCounts(r)[p] = PairCounts(k)[p]
           ELSE IF p \notin Pairs(k.translation_patterns)
           THEN PairCounts(r)[p] = times * PairCounts(snap)[p]
           ELSE PairCounts(r)[p] = PairCounts(k)[p] + times * PairCounts(snap)[p]

\* C4: after one merge every key the store lacked holds the remote count,
\* every key it had holds the old count plus the remote count, and the keys
\* the snapshot does not name are unchanged; after two merges of the same
\* snapshot its counts have been added twice.
C4_MergeAdditive ==
    \A n \in Nodes : \A snap \in {fin.A, fin.B} :
        /\ calls[n] = <<MergeOf(snap)>> => Additive(fin.K, snap, pk[n], 1)
        /\ calls[n] = <<MergeOf(snap), MergeOf(snap)>> => Additive(fin.K, snap, pk[n], 2)

\* one snapshot was merged twice into a store that held one of its pairs and
\* lacked another of its keys
C4_Witness ==
    /\ calls["A"] = <<MergeOf(fin.A), MergeOf(fin.A)>>
    /\ Pairs(fin.A.translation_patterns) \cap Pairs(fin.K.translation_patterns) # {}
    /\ Pairs(fin.A.translation_patterns) \ Pairs(fin.K.translation_patterns) # {}
    /\ DOMAIN fin.A.protocols # {}
    /\ DOMAIN fin.K.protocols \ DOMAIN fin.A.protocols # {}
    /\ pk["A"].translation_patterns["HTTP"]["MQTT"] =
           fin.K.translation_patterns["HTTP"]["MQTT"] +
               2 * fin.A.translation_patterns["HTTP"]["MQTT"]

--------------------------------------------------------------------------
(* Properties of learn_from_feedback and prune_old_patterns *)

CountOf(pats, s, t) ==
    IF s \in DOMAIN pats /\ t \in DOMAIN pats[s] THEN pats[s][t] ELSE 0

\* pats2 is pats with the count of (s, t) one higher, every other pair as it was
BumpedBy1(pats, pats2, s, t) ==
    /\ Pairs(pats2) = Pairs(pats) \cup {<<s, t>>}
    /\ pats2[s][t] = CountOf(pats, s, t) + 1
    /\ \A p \in Pairs(pats) : p # <<s, t>> => pats2[p[1]][p[2]] = pats[p[1]][p[2]]

\* C6 as stated: feedback raises the count of (source, target) by exactly 1
\* when success is true and changes no count when it is false, never lowers
\* a count and never changes another pair.
C6_Original ==
    [][\A n \in Nodes :
          (op'.name = "learn" /\ op'.node = n) =>
              LET r == op'.arg
                  pats == pk[n].translation_patterns
                  pats2 == pk'[n].translation_patterns
              IN  IF r.success
                  THEN BumpedBy1(pats, pats2, r.source_protocol, r.target_protocol)
                  ELSE pats2 = pats]_vars

\* C6: feedback raises the count of (source, target) by exactly 1 when success
\* is true and both names are non-empty, and otherwise (a failure, or a
\* missing source or target name) leaves every translation pattern as it was;
\* it never lowers a count and never changes another pair.
C6_FeedbackCounts ==
    [][\A n \in Nodes :
          (op'.name = "learn" /\ op'.node = n) =>
              LET r == op'.arg
                  pats == pk[n].translation_patterns
                  pats2 == pk'[n].translation_patterns
              IN  /\ IF r.success /\ r.source_protocol # "" /\ r.target_protocol # ""
                     THEN BumpedBy1(pats, pats2, r.source_protocol, r.target_protocol)
                     ELSE pats2 = pats
                  /\ \A p \in Pairs(pats) :
                         p \in Pairs(pats2) /\ pats2[p[1]][p[2]] >= pats[p[1]][p[2]]]_vars

\* a success was learned for a pair the store held, after a failure and a
\* success without a source name had left it alone
C6_Witness ==
    /\ op.name = "learn"
    /\ op.arg.success /\ op.arg.source_protocol = "HTTP" /\ op.arg.target_protocol = "MQTT"
    /\ Len(calls["A"]) = 2
    /\ calls["A"][1].name = "learn"
    /\ ~calls["A"][1].arg.success
    /\ <<"HTTP", "MQTT">> \in Pairs(fin.K.translation_patterns)
    /\ pk["A"].translation_patterns["HTTP"]["MQTT"] =
           fin.K.translation_patterns["HTTP"]["MQTT"] + 1

\* C7: prune removes exactly the pairs whose count is below the floor of 3 and
\* the sources left with no target: every remaining pair was there with the
\* same count, which is at least 3; every pair that had a count of at least 3
\* remains; no source maps to an empty target set.
C7_PruneExact ==
    [][\A n \in Nodes :
          (op'.name = "prune" /\ op'.node = n) =>
              LET pats == pk[n].translation_patterns
                  pats2 == pk'[n].translation_patterns
              IN  /\ Pairs(pats2) = {p \in Pairs(pats) : pats[p[1]][p[2]] >= 3}
                  /\ \A p \in Pairs(pats2) : pats2[p[1]][p[2]] = pats[p[1]][p[2]]
                  /\ \A s \in DOMAIN pats2 : DOMAIN pats2[s] # {}
                  /\ DOMAIN pats2 = {p[1] : p \in Pairs(pats2)}
                  /\ pk'[n].protocols = pk[n].protocols]_vars

\* prune ran on a store with a pair at the floor, a pair below the floor next
\* to it, and a source holding only pairs below the floor
C7_Witness ==
    /\ calls["A"] = <<[name |-> "prune"]>>
    /\ LET pats == fin.K.translation_patterns
           pats2 == pk["A"].translation_patterns
       IN  /\ \E p \in Pairs(pats) : pats[p[1]][p[2]] = 3 /\ p \in Pairs(pats2)
           /\ \E p \in Pairs(pats) : pats[p[1]][p[2]] < 3 /\ p \notin Pairs(pats2)
                                      /\ p[1] \in DOMAIN pats2
           /\ \E s \in DOMAIN pats : DOMAIN pats[s] # {} /\ s \notin DOMAIN pats2

--------------------------------------------------------------------------
(* Properties of the decision ledger and of routing *)

\* the ledger holds the last decisions made, at most LedgerCapacity of them,
\* oldest first: timestamps are the numbers of the decisions, from 0
LedgerHoldsLatest(memory, made) ==
    /\ Len(memory) <= LedgerCapacity
    /\ Len(memory) = Min(made, LedgerCapacity)
    /\ \A i \in 1..Len(memory) : memory[i].timestamp = made - Len(memory) + i - 1

\* C8: the ledger never holds more than 1000 decisions and evicts oldest
\* first: once 1001 decisions were made the first is gone and the newest is
\* there, the entries keep their insertion order, and an entry that stays is
\* the decision it was when it was appended.
C8_LedgerFifo ==
    [][\A n \in Nodes :
          /\ LedgerHoldsLatest(decision_memory'[n], clock'[n])
          /\ clock'[n] = LedgerCapacity + 1 =>
                 /\ \A i \in 1..Len(decision_memory'[n]) : decision_memory'[n][i].timestamp # 0
                 /\ decision_memory'[n][LedgerCapacity].timestamp = LedgerCapacity
          /\ decision_memory'[n] # decision_memory[n] =>
                 \A i \in 1..(Len(decision_memory'[n]) - 1) :
                     decision_memory'[n][i] =
                         decision_memory[n][i + Len(decision_memory[n]) + 1
                                              - Len(decision_memory'[n])]]_vars

\* 1001 decisions were made: the ledger is full, the first decision is gone
C8_Witness ==
    /\ clock["A"] = LedgerCapacity + 1
    /\ Len(decision_memory["A"]) = LedgerCapacity
    /\ decision_memory["A"][1].timestamp = 1
    /\ decision_memory["A"][LedgerCapacity].timestamp = LedgerCapacity

\* C9: with the learned pattern (HTTP -> MQTT: 12) in the store and no healthy
\* translator node, routing an HTTP packet does not raise and gives target
\* "MQTT", confidence 1.0 and the first configured endpoint, whether or not
\* the traffic analysis has written a routing-table entry for HTTP.
C9_RouteLearnedPattern ==
    \A n \in Nodes :
        (/\ op.name = "route" /\ op.node = n
         /\ IdentifyProtocolFromData(op.packet) = "HTTP"
         /\ op.healthy = {}
         /\ pk[n].translation_patterns = Pat("HTTP", "MQTT", 12))
            => /\ ~op.raised
               /\ op.decision.target_protocol = "MQTT"
               /\ op.decision.confidence = 10
               /\ op.translator_url = op.translator_nodes[1]

--------------------------------------------------------------------------
(* The gossip round *)

\* the names of the operations recorded on a node
Names(log) == [i \in DOMAIN log |-> log[i].name]

RoundDone ==
    \A n \in Nodes :
        Names(calls[n]) = Names(RoundFeedbacks) \o <<"send", "receive">>

\* C10: two nodes that have each learned 5 successes for (HTTP, MQTT) both
\* hold 10 for that pair after a round in which each broadcasts its snapshot
\* once and each receives the other's broadcast.
C10_RoundSums ==
    RoundDone =>
        \A n \in Nodes : CountOf(pk[n].translation_patterns, "HTTP", "MQTT") = 2 * RoundLearned

--------------------------------------------------------------------------
(* Counts of the knowledge store over time *)

NonNegative(k) == \A c \in CountsOf(k) : c >= 0

\* every protocol of k is in k2 with a count at least as large
ProtocolsKept(k, k2) ==
    \A c \in DOMAIN k.protocols :
        /\ c \in DOMAIN k2.protocols
        /\ k2.protocols[c].count >= k.protocols[c].count

\* every pair of k is in k2 with a count at least as large, but for the
\* pairs below the floor when pruning is allowed
PatternsKept(k, k2, pruning) ==
    \A s \in DOMAIN k.translation_patterns :
        \A t \in DOMAIN k.translation_patterns[s] :
            \/ /\ s \in DOMAIN k2.translation_patterns
               /\ t \in DOMAIN k2.translation_patterns[s]
               /\ k2.translation_patterns[s][t] >= k.translation_patterns[s][t]
            \/ pruning /\ k.translation_patterns[s][t] < PruneFloor

\* C5: every observed_count and success_count is non-negative, and over any
\* operation (feedback, merge, the periodic reload of the learning task) a
\* count never decreases and an entry never disappears, except that the
\* learning task's prune removes the pairs below the floor.
C5_CountsOnlyGrow ==
    [][\A n \in Nodes :
          /\ NonNegative(pk'[n])
          /\ ProtocolsKept(pk[n], pk'[n])
          /\ PatternsKept(pk[n], pk'[n], op'.name = "learning")]_vars

--------------------------------------------------------------------------
(* Properties of fingerprints and identification *)

\* the fingerprint the extractor is to give for raw
Fingerprint(raw) ==
    [header_signature |->
         IF Len(raw) < 4 THEN 0
         ELSE ((raw[1] * 256 + raw[2]) * 256 + raw[3]) * 256 + raw[4],
     payload_modulus |-> Len(raw) % 8,
     trailer_bits |-> IF raw = <<>> THEN 0 ELSE raw[Len(raw)] % 16]

\* the integer reading of a fingerprint held with a hex header
AsFingerprint(fp) ==
    [header_signature |-> IntOfHex(fp.header_rhythm),
     payload_modulus |-> fp.payload_breathing,
     trailer_bits |-> fp.response_tells]

Matching(protocol_dna, raw) ==
    {i \in 1..Len(protocol_dna) : protocol_dna[i].fingerprint = DnaFingerprint(raw)}

\* C12: identify returns the name of a DNA entry exactly when that entry's
\* header, modulus and trailer all equal the packet's fingerprint, and
\* "UNKNOWN" when no entry matches, for every input including the empty one.
C12_IdentifyExactMatch ==
    op.name = "identify" =>
        LET protocol_dna == ProtocolDna(fin.rows)
            matching == Matching(protocol_dna, fin.raw)
        IN  IF matching = {} THEN op.result = "UNKNOWN"
            ELSE op.result \in {protocol_dna[i].protocol_name : i \in matching}

--------------------------------------------------------------------------
(* Properties of the load balancer *)

\* the nodes of the call's list that passed the probe
Passed(o) == Range(o.translator_nodes) \cap o.healthy

\* C13: with no healthy node select_translator returns translator_nodes[0]
\* and does not raise; the list of configured endpoints is never empty.
C13_FallbackFirstNode ==
    /\ fin.name = "balancer" => lb["A"].translator_nodes # <<>>
    /\ (op.name = "select" /\ Passed(op) = {}) =>
           /\ ~op.raised
           /\ op.node = op.translator_nodes[1]

\* a select over two configured nodes, none of them healthy, one other
\* endpoint healthy
C13_Witness ==
    /\ op.name = "select"
    /\ Len(op.translator_nodes) = 2
    /\ Passed(op) = {}
    /\ op.healthy # {}
    /\ op.node = op.translator_nodes[1]

\* C14: for every priority calculate_priority returns, healthy node or not,
\* select_translator completes without an error and returns one of
\* translator_nodes.
C14_SelectCompletes ==
    (op.name = "select" /\ op.priority.kind = "str") =>
        /\ ~op.raised
        /\ op.node \in Range(op.translator_nodes)

\* C15: when at least one configured node passes the probe, the endpoint
\* select_translator returns is a node that passed the probe in that call.
C15_OnlyHealthySelected ==
    (op.name = "select" /\ Passed(op) # {} /\ ~op.raised) => op.node \in Passed(op)

\* a select over two configured nodes of which exactly one passed the probe
C15_Witness ==
    /\ op.name = "select"
    /\ ~op.raised
    /\ Len(op.translator_nodes) = 2
    /\ Cardinality(Passed(op)) = 1
    /\ op.node \in Passed(op)

--------------------------------------------------------------------------
(* Malformed gossip payloads *)

\* the payload does not parse, lacks a required field, or holds a protocol
\* record of the wrong shape
MalformedInput(m) ==
    \/ Unparseable(m)
    \/ {"node_id", "protocols", "translation_patterns", "signature"} \ DOMAIN m # {}
    \/ \E i \in DOMAIN m.protocols : "count" \notin DOMAIN m.protocols[i][2]

\* C16: a node that handles a malformed payload has the same knowledge after
\* it as before, and its receiver keeps running.
C16_MalformedNoMutation ==
    [][\A n \in Nodes :
          (op'.name = "receive" /\ op'.node = n /\ MalformedInput(op'.msg))
              => (pk'[n] = pk[n] /\ running'[n])]_vars

--------------------------------------------------------------------------
(* The threads of an agent and its pattern counts *)

\* the translation patterns of the dict self.protocol_knowledge refers to
CurrentPatterns(h) ==
    IF h.src[h.root] = 0 THEN EmptyFn
    ELSE [s \in {"HTTP"} |->
             IF h.cnt[h.src[h.root]] = Absent THEN EmptyFn
             ELSE [t \in {"MQTT"} |-> h.cnt[h.src[h.root]]]]

\* an operation applied as a whole
Whole(k, o) ==
    CASE o = "merge" -> MergeKnowledge(k, EmptyFn, Pat("HTTP", "MQTT", fin.count))
      [] o = "feedback" -> LearnFromFeedback(k, HttpToMqtt)
      [] o = "learning" ->
             [LoadKnowledgeBase(db["A"]) EXCEPT
                  !.translation_patterns = PruneOldPatterns(@)]

RECURSIVE InOrder(_, _)
InOrder(k, order) ==
    IF order = <<>> THEN k ELSE InOrder(Whole(k, Head(order)), Tail(order))

\* the operations the threads have performed
Performed(h) == {"merge", "feedback"} \cup (IF Over(h.learn) THEN {"learning"} ELSE {})

Orders(S) == {o \in [1..Cardinality(S) -> S] : \A i, j \in DOMAIN o : o[i] = o[j] => i = j}

\* the receiver and the decision loop are past their operation, the learning
\* thread is past its cycle or has not begun it
Quiet(h) == Over(h.recv) /\ Over(h.main) /\ (Over(h.learn) \/ h.learn.pc = "start")

\* C17: under every interleaving of merge_knowledge, learn_from_feedback and
\* the learning cycle, the final count of the surviving pair is the count
\* that some sequential order of the same operations gives.
C17_NoLostUpdate ==
    (fin.name = "threads" /\ Quiet(th) /\ Pairs(CurrentPatterns(th)) # {}) =>
        \E order \in Orders(Performed(th)) :
            LET k == InOrder(pk["A"], order)
            IN  /\ <<"HTTP", "MQTT">> \in Pairs(k.translation_patterns)
                /\ k.translation_patterns["HTTP"]["MQTT"] =
                       CurrentPatterns(th)["HTTP"]["MQTT"]

--------------------------------------------------------------------------
(* Repeated deliveries *)

\* C18: however many times the transport delivers the datagram of one
\* broadcast to a node, the node merges it at most once.
C18_AtMostOneMerge ==
    \A n \in Nodes : \A i, j \in DOMAIN calls[n] :
        (/\ calls[n][i].name = "receive" /\ calls[n][i].merged
         /\ calls[n][j].name = "receive" /\ calls[n][j].merged
         /\ calls[n][i].msg = calls[n][j].msg) => i = j

--------------------------------------------------------------------------
(* Cancellation *)

Stopped == th.name = "tasks" /\ ~running["A"]

\* C19: once stop() has cleared the running flags every periodic task of
\* the node eventually exits, the gossip receiver waiting for a datagram
\* included.
C19_StopEndsEveryTask ==
    Stopped ~> (\A t \in Tasks : th.pc[t] = "exited")

--------------------------------------------------------------------------
(* Message authentication *)

\* the signature is the digest of the canonical serialisation of the
\* knowledge under the key
Authentic(key, knowledge, signature) ==
    /\ ~JsonDumps(knowledge).raised
    /\ signature = HexDigest(key, JsonDumps(knowledge).data)

--------------------------------------------------------------------------
(* Feedback of a dispatched packet *)

\* C21: when the codec reports failure for a dispatched packet (unsupported
\* target protocol or a codec error), the feedback given to
\* learn_from_feedback has success false and no success count changes.
C21_FailureNotCounted ==
    (op.name = "dispatch" /\ op.replied /\ ~op.translated)
        => /\ ~op.feedback.success
           /\ pk[op.node].translation_patterns = op.before

--------------------------------------------------------------------------
(* Startup *)

\* the persistence store cannot be opened or the gossip port cannot be bound
StartupFails == fin.name = "startup" /\ (~db["A"].ok \/ ~fin.bind)

\* C22: when the gossip socket cannot be bound or the persistence store
\* cannot be opened at startup, no periodic task of the node ever runs and
\* the node never enters autonomous operation.
C22_StartupFailureFatal ==
    StartupFails => th.name # "tasks"

--------------------------------------------------------------------------
(* Target selection *)

\* the targets the selection order allows for a source protocol under
\* knowledge k: a learned target of maximal count; with none learned the
\* entry of the static table; otherwise the default of make_decision
RuleTargets(k, source_protocol) ==
    LET pats == k.translation_patterns
        learned == IF source_protocol \in DOMAIN pats
                   THEN pats[source_protocol] ELSE EmptyFn
    IN  IF DOMAIN learned # {}
        THEN {t \in DOMAIN learned : \A u \in DOMAIN learned : learned[u] <= learned[t]}
        ELSE IF source_protocol = "HTTP" THEN {"MQTT"}
        ELSE IF source_protocol = "MQTT" THEN {"HTTP"}
        ELSE IF source_protocol = "BTC_Transaction" THEN {"HTTP"}
        ELSE IF source_protocol = "TCP" THEN {"JSON"}
        ELSE {"HTTP"}

\* C23: the target written into the decision of a routed packet is the
\* result of the selection order (learned target of maximal success count,
\* else static table, else the default) applied to the knowledge the node
\* holds when it decides.
C23_TargetByRule ==
    (op.name = "route" /\ Decided)
        => op.decision.target_protocol
               \in RuleTargets(pk[op.node], op.decision.source_protocol)

--------------------------------------------------------------------------
(* Confidence *)

\* min(1.0, success_count / 10) for a learned pair, else 0.6; in tenths
ConfidenceOf(k, source_protocol, target_protocol) ==
    IF <<source_protocol, target_protocol>> \in Pairs(k.translation_patterns)
    THEN LET c == k.translation_patterns[source_protocol][target_protocol]
         IN  IF c < 10 THEN c ELSE 10
    ELSE 6

\* C24: the confidence of a decision is min(1.0, success_count/10) when the
\* pair is learned and 0.6 otherwise, and every decision of the ledger has a
\* confidence in [0, 1], also after snapshots of other hosts were merged.
C24_ConfidenceInRange ==
    /\ op.name = "decide" =>
           op.decision.confidence =
               ConfidenceOf(pk[op.node], op.decision.source_protocol,
                            op.decision.target_protocol)
    /\ \A n \in Nodes : \A i \in DOMAIN decision_memory[n] :
           /\ decision_memory[n][i].confidence >= 0
           /\ decision_memory[n][i].confidence <= 10

--------------------------------------------------------------------------
(* Endpoint discovery *)

\* C25: over any sequence of select_translator calls, two calls that
\* refresh the endpoint list (update_nodes) are at least the refresh
\* interval of 60 seconds apart.
C25_RefreshSpacing ==
    fin.name = "balancer" =>
        \A i, j \in DOMAIN calls["A"] :
            (/\ i < j
             /\ calls["A"][i].name = "select" /\ calls["A"][i].refreshed
             /\ calls["A"][j].name = "select" /\ calls["A"][j].refreshed)
                => calls["A"][j].at - calls["A"][i].at >= RefreshInterval

--------------------------------------------------------------------------
(* Selection weights *)

\* fraction a is less than fraction b, both with positive denominators
Less(a, b) == a.num * b.den < b.num * a.den

\* the healthy nodes of the call x is strictly less loaded than
Heavier(o, x) ==
    {y \in DOMAIN o.probabilities : o.metrics[x].load < o.metrics[y].load}

\* C26: among the healthy nodes of a call a node with strictly lower load
\* has a strictly higher selection probability, and with a higher requested
\* priority the selection probability of the lower-loaded node is higher.
C26_WeightByLoadAndPriority ==
    (op.name = "select" /\ ~op.raised /\ Passed(op) # {}) =>
        \A x \in DOMAIN op.probabilities :
            /\ \A y \in Heavier(op, x) : Less(op.probabilities[y], op.probabilities[x])
            /\ Heavier(op, x) # {} =>
                   \A q \in {p.val : p \in {r \in Priorities : r.kind = "num"}} :
                       q > op.priority.val =>
                           Less(op.probabilities[x],
                                Probabilities(op.metrics,
                                              SelectSeq(op.translator_nodes,
                                                        LAMBDA z : z \in op.healthy),
                                              q)[x])

--------------------------------------------------------------------------
(* Load accounting *)

\* C27: a call of select_translator that returns an endpoint has raised
\* that endpoint's load by 1 and left the load of every other endpoint as
\* it was, also when the endpoint is the fallback for no healthy node.
C27_LoadOfSelected ==
    (fin.name = "balancer" /\ op.name = "select" /\ ~op.raised) =>
        \A x \in DOMAIN lb["A"].node_metrics :
            lb["A"].node_metrics[x].load =
                op.metrics[x].load + (IF x = op.node THEN 10 ELSE 0)

--------------------------------------------------------------------------
(* Invariants of the load balancer *)

\* C28: translator_nodes is never empty, node_metrics has exactly the
\* configured nodes as its keys, every load and every success count is at
\* least 0; update_metrics sets the load of its node to
\* max(0, load + increment - 0.1) and raises the success count by one when
\* success is true and not at all otherwise.
C28_BalancerInvariants ==
    fin.name = "balancer" =>
        /\ lb["A"].translator_nodes # <<>>
        /\ DOMAIN lb["A"].node_metrics = Range(lb["A"].translator_nodes)
        /\ \A x \in DOMAIN lb["A"].node_metrics :
               /\ lb["A"].node_metrics[x].load >= 0
               /\ lb["A"].node_metrics[x].success >= 0
        /\ (op.name = "metrics" /\ op.node \in DOMAIN op.before) =>
               LET old == op.before[op.node]
                   new == lb["A"].node_metrics[op.node]
                   sum == old.load + op.load_increment - 1
               IN  /\ new.load = IF sum > 0 THEN sum ELSE 0
                   /\ new.success = old.success + (IF op.success THEN 1 ELSE 0)
                   /\ \A x \in DOMAIN op.before \ {op.node} :
                          lb["A"].node_metrics[x] = op.before[x]

\* update_metrics released more load than a node of two had, on a success
C28_Witness ==
    /\ op.name = "metrics"
    /\ op.node \in DOMAIN op.before
    /\ Cardinality(DOMAIN op.before) = 2
    /\ op.success
    /\ op.before[op.node].load > 0
    /\ op.before[op.node].load + op.load_increment - 1 < 0
    /\ lb["A"].node_metrics[op.node].load = 0

--------------------------------------------------------------------------
(* Content of a broadcast *)

\* C29: the message a node sends carries the protocols and the translation
\* patterns the node's store holds when it is sent, also after
\* learn_from_feedback, a merge or a reload by the learning task.
C29_BroadcastIsCurrent ==
    op.name = "send" =>
        /\ op.msg.protocols = DumpProtocols(pk[op.node].protocols)
        /\ op.msg.translation_patterns = pk[op.node].translation_patterns

--------------------------------------------------------------------------
(* Errors in a cycle *)

\* C30: an exception raised in a cycle of the gossip sender, the gossip
\* receiver, the traffic analysis, the learning task or the decision loop
\* does not end the task: a task leaves its loop only once running is
\* cleared, and after a cycle that raised the task comes to its next cycle
\* unless running is cleared first.
C30_ErrorsNotFatal ==
    /\ [][\A t \in Tasks :
              (/\ th.name = "tasks" /\ th'.name = "tasks"
               /\ th.pc[t] # "exited" /\ th'.pc[t] = "exited") => ~running["A"]]_vars
    /\ \A t \in Tasks :
           (th.name = "tasks" /\ op.name \in {"body", "recvfrom", "arrive"}
                /\ op.task = t /\ op.raised)
               ~> (th.pc[t] = "body" \/ ~running["A"])

\* the task whose cycle raised last has come to the body of its next cycle
\* while running is set
C30_Witness ==
    /\ th.name = "tasks"
    /\ running["A"]
    /\ op.name = "test"
    /\ op.task = th.failed
    /\ th.pc[op.task] = "body"

--------------------------------------------------------------------------
(* The retry loop of a dispatched packet *)

\* C31: a packet of a pass is posted to its translator at most 3 times and
\* not again after the first answered post; learn_from_feedback runs at most
\* once for it (one pair at most one higher, nothing else changed) and not
\* at all when the 3 posts fail; every post, failed ones included, is
\* followed by update_metrics, a failed one leaving the node's success count
\* as it was and adding 0.9 to its load; after a packet that used up its
\* retries the pass still holds its balancer and goes on.
C31_DispatchBounded ==
    op.name = "dispatch" =>
        LET n == op.node
            failed == IF op.replied THEN op.posts - 1 ELSE op.posts
            now == lb[n].node_metrics[op.translator_url]
            was == op.metrics[op.translator_url]
            pats == pk[n].translation_patterns
        IN  /\ op.posts <= Retries
            /\ op.replied => op.posts = op.failures + 1
            /\ ~op.replied => op.posts = Retries /\ pats = op.before
            /\ \/ pats = op.before
               \/ BumpedBy1(op.before, pats, op.feedback.source_protocol,
                            op.feedback.target_protocol)
            /\ lb[n] # NoLb
            /\ now.load = was.load + 9 * op.posts
            /\ now.success = was.success + (IF op.replied /\ op.feedback.success THEN 1 ELSE 0)
            /\ failed > 0 => now.last_checked = Epoch

\* a packet whose three posts all failed
C31_Witness ==
    /\ op.name = "dispatch"
    /\ ~op.replied
    /\ op.posts = Retries
    /\ lb[op.node].node_metrics[op.translator_url].load >= 27

--------------------------------------------------------------------------
(* The decision loop and the rows awaiting a decision *)

\* C32: every clustered row awaiting a decision gets its turn in some pass
\* of the decision loop, and a row that has had its turn gets no turn in a
\* later pass.
C32_LoopDrains ==
    /\ [](op.name = "turn" => ~op.again)
    /\ \A row \in 1..MaxPending :
           (fin.name = "drain" /\ row \in Pending(db["A"])) ~> (row \in th.handled)

--------------------------------------------------------------------------
(* The clustering run *)

\* density clustering over integer feature vectors with radius 0.5: the
\* neighbours of a packet are the packets of the batch with its very vector,
\* and a packet with fewer than min_samples of them is noise
Noise(o, i) ==
    Cardinality({j \in o.packets : o.features[j] = o.features[i]}) < MinSamples

\* C33: after a clustering run every packet of the batch that is noise has
\* cluster_id -1 and every other packet of the batch a cluster id of its
\* own group; every cluster id in use has a protocol_clusters row named
\* "Protocol_<id>"; every protocol_clusters row counts the stored packets
\* that carry its id; a run over no unclustered packet changes nothing.
C33_ClusteringRun ==
    op.name = "analyze" =>
        LET d == db[op.node]
        IN  /\ op.packets = {} => d = op.before
            /\ \A i \in op.packets :
                   IF Noise(op, i) THEN d.rows[i].cluster_id = -1
                   ELSE d.rows[i].cluster_id # -1
            /\ \A c \in ClusterIds(d.rows) :
                   /\ IntKey(c) \in DOMAIN d.clusters
                   /\ d.clusters[IntKey(c)].name = ProtocolName(c)
            /\ \A c \in {0, 1} :
                   IntKey(c) \in DOMAIN d.clusters =>
                       d.clusters[IntKey(c)].count = Cardinality(Members(d.rows, c))

--------------------------------------------------------------------------
(* Traffic alerts *)

\* C34: a cycle of the traffic analysis raises the high-traffic alert for
\* exactly the protocols whose packet count divided by the 300 seconds of
\* the window is above 5 times the baseline, the multi-source alert for
\* exactly the protocols with more distinct sources than the ceiling, and
\* hands to apply_routing_policy one record (rate_limit, the protocol, a
\* duration) for each high-traffic alert and none for any other protocol.
C34_TrafficAlerts ==
    (op.name = "analyze" /\ th.name = "traffic") =>
        LET a == op.anomalies
        IN  /\ \A p \in DOMAIN th.rows :
                   /\ p \in a.high_traffic
                          <=> th.rows[p].packet_count > 5 * ThroughputBaseline * Window
                   /\ p \in a.multi_source <=> th.rows[p].unique_sources > MaxSources
            /\ a.high_traffic \cup a.multi_source \subseteq DOMAIN th.rows
            /\ DOMAIN a.policies = a.high_traffic
            /\ \A p \in a.high_traffic :
                   /\ Len(a.policies[p]) = 1
                   /\ a.policies[p][1].action = "rate_limit"
                   /\ a.policies[p][1].protocol = p
                   /\ a.policies[p][1].duration_minutes > 0

\* a cycle that raised the multi-source alert alone for one protocol and the
\* high-traffic alert for another
C34_Witness ==
    /\ op.name = "analyze"
    /\ th.name = "traffic"
    /\ op.anomalies.high_traffic = {"HTTP"}
    /\ op.anomalies.multi_source = {"MQTT"}

--------------------------------------------------------------------------
(* The signature of a broadcast *)

\* C35: the signature of every datagram a sender broadcasts is the one
\* recomputed over the protocols and translation_patterns of that datagram,
\* whatever the other threads of the agent did to the knowledge meanwhile.
C35_SignatureMatchesMessage ==
    (th.name = "sender" /\ op.name = "send") => VerifySignature(ParseDatagram(op.msg))

--------------------------------------------------------------------------
(* Honest gossip *)

\* no two keys of the dict stand for the same cluster id
KeyIdentity(protocols) ==
    \A a, b \in DOMAIN protocols : JsonKey(a) = JsonKey(b) => a = b

\* C36: a datagram a sender built, delivered unaltered to another node,
\* passes the signature check and is merged, and afterwards the receiver
\* holds one entry per cluster id: an id it loaded from its database and
\* the same id arriving by gossip are one entry.
C36_HonestRoundTrip ==
    (fin.name = "honest" /\ op.name = "receive" /\ op.msg.node_id # NodeIdOf(op.node))
        => /\ op.merged
           /\ KeyIdentity(pk[op.node].protocols)

--------------------------------------------------------------------------
(* What the signature check depends on *)

\* C37: two received dicts with the same protocols, translation_patterns
\* and signature get the same answer from _verify_signature whatever their
\* node_id and timestamp, and the receiver treats them differently only
\* when one of them carries the receiver's own node_id.
C37_VerdictIgnoresSender ==
    op.name = "verify2" =>
        /\ op.verified[1] = op.verified[2]
        /\ (op.first.node_id # NodeIdOf(op.node) /\ op.second.node_id # NodeIdOf(op.node))
               => op.verdict[1] = op.verdict[2]

\* two dicts of different senders and instants, both verified
C37_Witness ==
    /\ op.name = "verify2"
    /\ op.first.node_id = "idB"
    /\ op.second.node_id = "idX"
    /\ op.first.timestamp # op.second.timestamp
    /\ op.verified = <<TRUE, TRUE>>
    /\ op.verdict = <<"merge", "merge">>

--------------------------------------------------------------------------
(* What endpoint discovery leaves alone *)

\* C38: when a select_translator call refreshes the endpoint list, every
\* node that was configured before and is configured after the refresh
\* keeps its load, its success count and its last_checked.
C38_RefreshKeepsMetrics ==
    [][(/\ fin.name = "balancer"
        /\ op'.name = "select"
        /\ Len(calls'["A"]) > Len(calls["A"])
        /\ calls'["A"][Len(calls'["A"])].refreshed)
           => \A x \in DOMAIN lb["A"].node_metrics \cap DOMAIN op'.metrics :
                  op'.metrics[x] = lb["A"].node_metrics[x]]_vars

--------------------------------------------------------------------------
(* Supervision *)

\* a tracked component process has terminated while the daemon is running
Terminated(name) ==
    IF th.name # "daemon" THEN FALSE
    ELSE IF name \notin DOMAIN th.processes THEN FALSE
    ELSE th.running /\ ~th.processes[name].alive

\* the component runs again with the command start() gave it, or the daemon
\* was stopped
Restarted(name) ==
    IF th.name # "daemon" THEN FALSE
    ELSE IF ~th.running THEN TRUE
    ELSE IF name \notin DOMAIN th.processes THEN FALSE
    ELSE th.processes[name].alive /\ th.processes[name].args = Command(name)

\* C39: while the daemon is running, the monitor loop is never left by an
\* exception, and every tracked component process that has terminated is
\* running again later, started with the command start() gave it.
C39_Supervision ==
    /\ [](th.name = "daemon" => th.pc # "raised")
    /\ \A name \in {"sniffer", "translator", "agent"} :
           Terminated(name) ~> Restarted(name)

--------------------------------------------------------------------------
(* The session database of the translation server *)

\* C40: when connect_to_db has returned True the server holds an open
\* connection to a database with the translation_sessions table, and every
\* translation request served afterwards is recorded as a session row;
\* connect_to_db makes at most `retries` attempts and returns False when
\* the last of them has failed.
C40_ConnectedMeansOpen ==
    th.name = "server" =>
        /\ th.pc = "serving" => (th.connection_db # "None" /\ th.table)
        /\ op.name = "request" => op.recorded
        /\ th.pc = "serving" => th.sessions = th.requests
        /\ op.name = "connect" =>
               /\ op.attempts <= ConnectRetries
               /\ (op.writable /\ op.failures >= ConnectRetries) => ~op.returned

====
